---------------------------- MODULE Spec2Model ----------------------------
(***************************************************************************)
(* Psymetrique: transcript segmentation, entity detection / manual entity  *)
(* insertion and offset-based anonymization.                               *)
(*                                                                         *)
(* Strings are sequences of one-character strings.  Offsets (start_pos,    *)
(* end_pos, find results) are 0-based as in the Python source; sequences   *)
(* are 1-based, so character k of a Python string is element k+1.          *)
(***************************************************************************)
EXTENDS Integers, Sequences, FiniteSets, TLC

(***************************************************************************)
(* Characters                                                              *)
(***************************************************************************)
UpperSeq ==
  <<"A","B","C","D","E","F","G","H","I","J","K","L","M",
    "N","O","P","Q","R","S","T","U","V","W","X","Y","Z">>

LowerSeq ==
  <<"a","b","c","d","e","f","g","h","i","j","k","l","m",
    "n","o","p","q","r","s","t","u","v","w","x","y","z">>

UpperLetters == { UpperSeq[i] : i \in DOMAIN UpperSeq }

LowerLetters == { LowerSeq[i] : i \in DOMAIN LowerSeq }

Letters == UpperLetters \cup LowerLetters

Digits == {"0","1","2","3","4","5","6","7","8","9"}

\* str.strip() and the regex class \s
Whitespace == {" ", "\n", "\t"}

\* the regex class \w (ASCII part)
WordChars == Letters \cup Digits \cup {"_"}

\* the regex class [.!?]
SentenceEnd == {".", "!", "?"}

\* the lower-case letter of each upper-case letter
LowerOf == [c \in UpperLetters |->
             LowerSeq[CHOOSE i \in DOMAIN UpperSeq : UpperSeq[i] = c]]

\* str.lower() on one character
LowerChar(c) == IF c \in UpperLetters THEN LowerOf[c] ELSE c

\* str.lower()
Lower(s) == [i \in DOMAIN s |-> LowerChar(s[i])]

(***************************************************************************)
(* Python string primitives                                                *)
(***************************************************************************)
Min(a, b) == IF a < b THEN a ELSE b

Max(a, b) == IF a > b THEN a ELSE b

\* a slice bound as Python normalises it: negative counts from the end,
\* everything is clamped into 0..len
ClampIndex(k, n) == IF k < 0 THEN Max(n + k, 0) ELSE Min(k, n)

\* s[a:b]
PySlice(s, a, b) ==
  LET lo == ClampIndex(a, Len(s))
      hi == ClampIndex(b, Len(s))
  IN  IF lo >= hi THEN <<>> ELSE SubSeq(s, lo + 1, hi)

\* s[:b]
PyPrefix(s, b) == PySlice(s, 0, b)

\* s[a:]
PySuffix(s, a) == PySlice(s, a, Len(s))

\* s.startswith(sub, k) for 0-based k
MatchesAt(s, sub, k) ==
  /\ k >= 0
  /\ k + Len(sub) <= Len(s)
  /\ \A j \in 1..Len(sub) : s[k + j] = sub[j]

\* s.find(sub, start): lowest index >= start where sub occurs, else -1
PyFind(s, sub, start) ==
  LET hits == { k \in start..(Len(s) - Len(sub)) : MatchesAt(s, sub, k) }
  IN  IF hits = {} THEN -1
      ELSE CHOOSE k \in hits : \A m \in hits : k <= m

\* sub in s
PyContains(s, sub) == PyFind(s, sub, 0) # -1

\* s.endswith(c) for a one-character c
EndsWith(s, c) == Len(s) > 0 /\ s[Len(s)] = c

RECURSIVE LStrip(_)
LStrip(s) ==
  IF s # <<>> /\ Head(s) \in Whitespace THEN LStrip(Tail(s)) ELSE s

RECURSIVE RStrip(_)
RStrip(s) ==
  IF s # <<>> /\ s[Len(s)] \in Whitespace
    THEN RStrip(SubSeq(s, 1, Len(s) - 1))
    ELSE s

\* s.strip()
Strip(s) == RStrip(LStrip(s))

\* s.split(sep) for a non-empty separator: non-overlapping, left to right
RECURSIVE SplitOn(_, _)
SplitOn(s, sep) ==
  LET k == PyFind(s, sep, 0)
  IN  IF k = -1 THEN <<s>>
      ELSE <<PyPrefix(s, k)>> \o SplitOn(PySuffix(s, k + Len(sep)), sep)

\* [f(x) for x in units if x.strip()] with f = strip
RECURSIVE StripNonEmpty(_)
StripNonEmpty(units) ==
  IF units = <<>> THEN <<>>
  ELSE IF Strip(Head(units)) # <<>>
         THEN <<Strip(Head(units))>> \o StripNonEmpty(Tail(units))
         ELSE StripNonEmpty(Tail(units))

\* "sep".join(units)
RECURSIVE Join(_, _)
Join(units, sep) ==
  IF units = <<>> THEN <<>>
  ELSE IF Len(units) = 1 THEN Head(units)
  ELSE Head(units) \o sep \o Join(Tail(units), sep)

(***************************************************************************)
(* AppState._split_into_paragraphs                                         *)
(***************************************************************************)
\* length above which a single paragraph is split further
LongParagraphThreshold == 500

\* number of leading characters of s that belong to class
RECURSIVE RunLength(_, _)
RunLength(s, class) ==
  IF s # <<>> /\ Head(s) \in class THEN 1 + RunLength(Tail(s), class) ELSE 0

\* re.split(r'[.!?]+', s)
RECURSIVE SplitSentences(_)
SplitSentences(s) ==
  LET hits == { k \in 0..(Len(s) - 1) : s[k + 1] \in SentenceEnd }
  IN  IF hits = {} THEN <<s>>
      ELSE LET k   == CHOOSE h \in hits : \A m \in hits : h <= m
               run == RunLength(PySuffix(s, k), SentenceEnd)
           IN  <<PyPrefix(s, k)>> \o SplitSentences(PySuffix(s, k + run))

\* the lookahead (?=\s+[A-Z]) at 0-based position k
CapitalFollows(s, k) ==
  LET ws == RunLength(PySuffix(s, k), Whitespace)
  IN  /\ ws >= 1
      /\ k + ws < Len(s)
      /\ s[k + ws + 1] \in UpperLetters

\* re.split(r'\.(?=\s+[A-Z])', s)
RECURSIVE SplitBeforeCapital(_)
SplitBeforeCapital(s) ==
  LET hits == { k \in 0..(Len(s) - 1) :
                  s[k + 1] = "." /\ CapitalFollows(s, k + 1) }
  IN  IF hits = {} THEN <<s>>
      ELSE LET k == CHOOSE h \in hits : \A m \in hits : h <= m
           IN  <<PyPrefix(s, k)>> \o SplitBeforeCapital(PySuffix(s, k + 1))

\* [s.strip() + '.' if not s.endswith('.') else s.strip()
\*    for s in sentences if s.strip()]
RECURSIVE ReappendPeriod(_)
ReappendPeriod(sentences) ==
  IF sentences = <<>> THEN <<>>
  ELSE LET s    == Head(sentences)
           rest == ReappendPeriod(Tail(sentences))
       IN  IF Strip(s) = <<>> THEN rest
           ELSE IF ~EndsWith(s, ".") THEN <<Strip(s) \o <<".">>>> \o rest
           ELSE <<Strip(s)>> \o rest

\* a selection that looks for a line break before it looks for a blank line
LineBreaksFirst(content) ==
  IF PyContains(content, <<"\n">>)
    THEN StripNonEmpty(SplitOn(content, <<"\n">>))
  ELSE StripNonEmpty(SplitSentences(content))

\* the three primary strategies, selected by which separator is present
PrimarySplit(content) ==
  IF PyContains(content, <<"\n", "\n">>)
    THEN StripNonEmpty(SplitOn(content, <<"\n", "\n">>))
  ELSE IF PyContains(content, <<"\n">>)
    THEN StripNonEmpty(SplitOn(content, <<"\n">>))
  ELSE StripNonEmpty(SplitSentences(content))

\* the paragraph texts _split_into_paragraphs stores, in order
SplitTexts(content) ==
  LET primary == PrimarySplit(content)
  IN  IF Len(primary) = 1 /\ Len(primary[1]) > LongParagraphThreshold
        THEN LET sentences == SplitBeforeCapital(primary[1])
             IN  IF Len(sentences) > 1 THEN ReappendPeriod(sentences)
                 ELSE primary
        ELSE primary

(***************************************************************************)
(* Entities                                                                *)
(***************************************************************************)
\* paragraph_id of an entity that has no paragraph_id attribute
NoParagraph == -1

PERSON == <<"P","E","R","S","O","N">>

ORGANIZATION == <<"O","R","G","A","N","I","Z","A","T","I","O","N">>

LOCATION == <<"L","O","C","A","T","I","O","N">>

DATE == <<"D","A","T","E">>

TIME == <<"T","I","M","E">>

MONEY == <<"M","O","N","E","Y">>

PERCENT == <<"P","E","R","C","E","N","T">>

PHONE == <<"P","H","O","N","E">>

EMAIL == <<"E","M","A","I","L">>

MISC == <<"M","I","S","C">>

\* Entity(text=..., entity_type=..., start_pos=..., end_pos=...) with the
\* dataclass defaults anonymized=False, replacement=""
Entity(text, type, start, end) ==
  [text |-> text, entity_type |-> type, start_pos |-> start, end_pos |-> end,
   anonymized |-> FALSE, replacement |-> <<>>, paragraph_id |-> NoParagraph]

\* f"[{entity_type}]"
Placeholder(type) == <<"[">> \o type \o <<"]">>

(***************************************************************************)
(* NLPService.anonymize_text                                               *)
(***************************************************************************)
\* insert e into a list already sorted by start_pos descending, ahead of the
\* first element whose key is not greater (keeps equal keys in list order)
RECURSIVE InsertByStartDesc(_, _)
InsertByStartDesc(e, sorted) ==
  IF sorted = <<>> THEN <<e>>
  ELSE IF Head(sorted).start_pos <= e.start_pos THEN <<e>> \o sorted
  ELSE <<Head(sorted)>> \o InsertByStartDesc(e, Tail(sorted))

\* the list left in the order it was passed
Unsorted(entities) == entities

\* sorted(entities, key=lambda e: e.start_pos, reverse=True)  (stable)
RECURSIVE SortByStartDesc(_)
SortByStartDesc(entities) ==
  IF entities = <<>> THEN <<>>
  ELSE InsertByStartDesc(Head(entities), SortByStartDesc(Tail(entities)))

\* entity.replacement or f"[{entity.entity_type}]"
ReplacementOf(e) ==
  IF e.replacement # <<>> THEN e.replacement ELSE Placeholder(e.entity_type)

\* one splice: text[:start_pos] + replacement + text[end_pos:]
Splice(text, e) ==
  PyPrefix(text, e.start_pos) \o ReplacementOf(e) \o PySuffix(text, e.end_pos)

\* every entity of the list is replaced
EveryEntity(e) == TRUE

\* if entity.anonymized:
Participates(e) == e.anonymized

\* the for loop over sorted_entities
RECURSIVE ApplySplices(_, _)
ApplySplices(text, sorted) ==
  IF sorted = <<>> THEN text
  ELSE ApplySplices(
         IF Participates(Head(sorted)) THEN Splice(text, Head(sorted)) ELSE text,
         Tail(sorted))

anonymize_text(text, entities) == ApplySplices(text, SortByStartDesc(entities))

(***************************************************************************)
(* NLPService._extract_entities_regex                                      *)
(*                                                                         *)
(* The PERSON and PERCENT patterns are modelled in full.  The DATE, TIME,  *)
(* PHONE, EMAIL and MONEY patterns cannot match a text that has fewer than *)
(* four digits and none of the characters / - : @ $ ; every text of the    *)
(* model is such a text (RegexInputOK).                                    *)
(***************************************************************************)
RegexInputOK(text) ==
  /\ \A i \in DOMAIN text : text[i] \notin {"/", "-", ":", "@", "$"}
  /\ Cardinality({ i \in DOMAIN text : text[i] \in Digits }) < 4

\* \b at 0-based position k: exactly one side is a word character
WordBoundary(s, k) ==
  LET before == k > 0 /\ s[k] \in WordChars
      after  == k < Len(s) /\ s[k + 1] \in WordChars
  IN  before # after

\* [A-Z][a-z]+ under re.IGNORECASE at k, taken greedily and closed by what
\* must follow it (\b, or the \s of another repetition): length of the
\* word, or 0 when no word of two or more letters ends on a boundary there
PersonWord(s, k) ==
  LET n == RunLength(PySuffix(s, k), Letters)
  IN  IF n >= 2 /\ WordBoundary(s, k + n) THEN n ELSE 0

\* (?:\s+[A-Z][a-z]+)* from end position e, greedy
RECURSIVE PersonExtend(_, _)
PersonExtend(s, e) ==
  LET ws == RunLength(PySuffix(s, e), Whitespace)
      n  == IF ws >= 1 THEN PersonWord(s, e + ws) ELSE 0
  IN  IF n > 0 THEN PersonExtend(s, e + ws + n) ELSE e

\* end of the PERSON match starting at k, or -1
PersonMatchEnd(s, k) ==
  IF k < Len(s) /\ WordBoundary(s, k) /\ PersonWord(s, k) > 0
    THEN PersonExtend(s, k + PersonWord(s, k))
    ELSE -1

\* \d+(?:\.\d+)?% : end of the match starting at k, or -1
PercentMatchEnd(s, k) ==
  LET d  == RunLength(PySuffix(s, k), Digits)
      e  == k + d
      d2 == IF e < Len(s) /\ s[e + 1] = "."
              THEN RunLength(PySuffix(s, e + 1), Digits) ELSE 0
      e2 == e + 1 + d2
  IN  IF d = 0 THEN -1
      ELSE IF d2 >= 1 /\ e2 < Len(s) /\ s[e2 + 1] = "%" THEN e2 + 1
      ELSE IF e < Len(s) /\ s[e + 1] = "%" THEN e + 1
      ELSE -1

\* the patterns dict, in insertion order
PatternTypes == <<PERSON, DATE, TIME, PHONE, EMAIL, MONEY, PERCENT>>

MatchEnd(type, s, k) ==
  IF type = PERSON THEN PersonMatchEnd(s, k)
  ELSE IF type = PERCENT THEN PercentMatchEnd(s, k)
  ELSE -1

\* PERSON matches that are dropped
CommonWords ==
  { <<"t","h","e">>, <<"a","n","d">>, <<"b","u","t">>, <<"f","o","r">>,
    <<"w","i","t","h">>, <<"t","h","i","s">>, <<"t","h","a","t">>,
    <<"t","h","e","y">>, <<"t","h","e","m">>, <<"t","h","e","i","r">> }

\* re.finditer(pattern, text) from position k on, with the PERSON filter,
\* as Entity objects
RECURSIVE FindIter(_, _, _)
FindIter(type, s, k) ==
  IF k >= Len(s) THEN <<>>
  ELSE LET e == MatchEnd(type, s, k)
       IN  IF e = -1 THEN FindIter(type, s, k + 1)
           ELSE IF type = PERSON /\ Lower(PySlice(s, k, e)) \in CommonWords
             THEN FindIter(type, s, e)
           ELSE <<Entity(PySlice(s, k, e), type, k, e)>> \o FindIter(type, s, e)

RECURSIVE RegexOverPatterns(_, _)
RegexOverPatterns(types, text) ==
  IF types = <<>> THEN <<>>
  ELSE FindIter(Head(types), text, 0) \o RegexOverPatterns(Tail(types), text)

extract_entities_regex(text) == RegexOverPatterns(PatternTypes, text)

(***************************************************************************)
(* NLPService._map_stanza_entity_type                                      *)
(***************************************************************************)
StanzaTypeMapping ==
  { <<PERSON, PERSON>>, <<<<"P","E","R">>, PERSON>>,
    <<<<"O","R","G">>, ORGANIZATION>>, <<ORGANIZATION, ORGANIZATION>>,
    <<<<"G","P","E">>, LOCATION>>, <<LOCATION, LOCATION>>,
    <<<<"L","O","C">>, LOCATION>>, <<DATE, DATE>>, <<TIME, TIME>>,
    <<MONEY, MONEY>>, <<PERCENT, PERCENT>>, <<PHONE, PHONE>>,
    <<EMAIL, EMAIL>>, <<MISC, MISC>> }

\* mapping.get(stanza_type, stanza_type)
map_stanza_entity_type(stanza_type) ==
  IF \E m \in StanzaTypeMapping : m[1] = stanza_type
    THEN (CHOOSE m \in StanzaTypeMapping : m[1] = stanza_type)[2]
    ELSE stanza_type

(***************************************************************************)
(* The external recognizer (the Stanza pipeline)                           *)
(*                                                                         *)
(* What the pipeline answers is not decided by this repository.  Its       *)
(* answer is a choice: it reports the capitalised words of the text, all   *)
(* with one native label, and the call or the iteration over its result    *)
(* may raise after any number of entities.                                 *)
(***************************************************************************)
NORP == <<"N","O","R","P">>

GPE == <<"G","P","E">>

\* native labels the pipeline may attach
NativeTypes == {PERSON, GPE, NORP}

\* raw (text, type, start_char, end_char) spans: capitalised words from k on
RECURSIVE CapitalisedWords(_, _, _)
CapitalisedWords(s, k, type) ==
  IF k >= Len(s) THEN <<>>
  ELSE LET n == RunLength(PySuffix(s, k), Letters)
       IN  IF n = 0 THEN CapitalisedWords(s, k + 1, type)
           ELSE IF s[k + 1] \in UpperLetters
             THEN <<[text |-> PySlice(s, k, k + n), type |-> type,
                     start_char |-> k, end_char |-> k + n]>>
                  \o CapitalisedWords(s, k + n, type)
           ELSE CapitalisedWords(s, k + n, type)

\* outcomes of self.nlp_pipeline(text): the spans, and fail_at = the number
\* of entities appended before an exception is raised (-1: none is raised)
StanzaOutcomes(text) ==
  { [ents |-> CapitalisedWords(text, 0, t), fail_at |-> f] :
      t \in NativeTypes, f \in {-1, 0, 1} }

(***************************************************************************)
(* NLPService.__init__, _initialize_stanza, extract_entities               *)
(*                                                                         *)
(* A service is the record of the two class attributes and the two         *)
(* instance attributes; pipelines are "None" or "pipeline".                *)
(***************************************************************************)
\* NLPService(): copies the class attributes
NewService(shared_pl, shared_init) ==
  [shared_pipeline |-> shared_pl, shared_initialized |-> shared_init,
   nlp_pipeline |-> shared_pl, stanza_initialized |-> shared_init]

\* _initialize_stanza; load_ok: one of the two stanza.Pipeline calls succeeds
initialize_stanza(svc, load_ok) ==
  IF svc.stanza_initialized \/ svc.shared_initialized
    THEN IF svc.shared_pipeline # "None"
           THEN [svc EXCEPT !.nlp_pipeline = svc.shared_pipeline,
                            !.stanza_initialized = TRUE]
           ELSE svc
    ELSE [shared_initialized |-> TRUE, stanza_initialized |-> TRUE,
          shared_pipeline |-> IF load_ok THEN "pipeline" ELSE "None",
          nlp_pipeline |-> IF load_ok THEN "pipeline" ELSE "None"]

\* the service as extract_entities finds it after its initialisation step
ServiceAfterInit(svc, load_ok) ==
  IF ~svc.stanza_initialized THEN initialize_stanza(svc, load_ok) ELSE svc

\* the entities list built from the first n spans of the pipeline's answer
RECURSIVE StanzaEntities(_, _)
StanzaEntities(ents, n) ==
  IF n = 0 \/ ents = <<>> THEN <<>>
  ELSE <<Entity(Head(ents).text, map_stanza_entity_type(Head(ents).type),
                Head(ents).start_char, Head(ents).end_char)>>
       \o StanzaEntities(Tail(ents), n - 1)

\* a call that returns the list es
Returned(es) == [raised |-> FALSE, entities |-> es]

\* an except clause that returns what the loop had built
ReturnPartial(text, partial) == Returned(partial)

\* the except clause of extract_entities: the pipeline raised after the
\* entities in partial had been appended
OnStanzaError(text, partial) == Returned(extract_entities_regex(text))

\* how the call extract_entities(text) ends
extract_entities(svc, text, load_ok, outcome) ==
  LET s == ServiceAfterInit(svc, load_ok)
  IN  IF s.nlp_pipeline # "None"
        THEN IF outcome.fail_at # -1
               THEN OnStanzaError(text,
                      StanzaEntities(outcome.ents, outcome.fail_at))
               ELSE Returned(StanzaEntities(outcome.ents, Len(outcome.ents)))
        ELSE Returned(extract_entities_regex(text))

(***************************************************************************)
(* Bounds and inputs                                                       *)
(***************************************************************************)
\* number of detection batches started in one behaviour
MaxBatchStarts == 1

\* number of detection batches started in one behaviour of the
\* specifications that follow the batches alone
MaxTasks == 2

\* cap on the length of app_state.entities
MaxEntities == 3

\* cap on the length of a paragraph text that anonymization produces
MaxTextLen == 12

\* "Aa\n\naaa"
TranscriptA == <<"A","a","\n","\n","a","a","a">>

\* "b"
TranscriptB == <<"b">>

\* "Aa\naaa\nb"
TranscriptC == <<"A","a","\n","a","a","a","\n","b">>

\* contents of uploaded files
Uploads == {TranscriptA}

\* contents of the text area when Save Changes is clicked
EditedContents == {TranscriptB}

\* texts typed into the manual-entity dialog: " aa", "aaa", "b", " "
ManualTexts == { <<" ","a","a">>, <<"a","a","a">>, <<"b">>, <<" ">> }

\* entity types chosen in the manual-entity dialog
ManualTypes == {DATE}

\* replacement texts typed into the manual-entity dialog: left empty
ManualReplacements == { <<>> }

\* ids of the coding schemes a user defines
SchemeIds == {"c1", "c2", "c3"}

(***************************************************************************)
(* State                                                                   *)
(***************************************************************************)
VARIABLES
  original_transcript,  \* AppState.original_transcript
  current_transcript,   \* AppState.current_transcript
  heap,                 \* the Paragraph objects that are still referenced
  paragraphs,           \* AppState.paragraphs: a list of Paragraph objects
  entities,             \* AppState.entities
  nlp_service,          \* EntitiesSection.nlp_service and the class attributes
  batches,              \* the _detect_entities tasks
  progress_dialog,      \* EntitiesSection._progress_dialog (0: None)
  open_dialogs,         \* progress dialogs that are open
  search_results,       \* the match buttons of the manual-entity dialog
  coding_schemes,       \* AppState.coding_schemes (the scheme ids)
  last_op,              \* the name of the handler that ran last
  call                  \* a function under test: inputs and result

vars ==
  <<original_transcript, current_transcript, heap, paragraphs, entities,
    nlp_service, batches, progress_dialog, open_dialogs, search_results,
    coding_schemes, last_op, call>>

Range(f) == { f[x] : x \in DOMAIN f }

\* Paragraph(id=i, text=text) with the dataclass defaults
Paragraph(i, text) ==
  [id |-> i, text |-> text, speaker |-> "unknown", sentiment |-> "neutral",
   entities |-> <<>>, codes |-> <<>>]

\* the Paragraph object at list index i (0-based) of app_state.paragraphs
ParagraphAt(i) == heap[paragraphs[i + 1]]

\* objects a running batch still iterates over
BatchObjects(bs) == UNION { Range(bs[b].plist) : b \in DOMAIN bs }

\* the objects reachable from the paragraph list and the running batches
Collect(h, plist, bs) ==
  [o \in Range(plist) \cup BatchObjects(bs) |-> h[o]]

\* n object identities that are not in use
RECURSIVE FreshObjects(_, _)
FreshObjects(n, used) ==
  IF n = 0 THEN <<>>
  ELSE LET o == CHOOSE x \in 1..(Cardinality(used) + 1) :
                  x \notin used /\ \A y \in 1..(x - 1) : y \in used
       IN  <<o>> \o FreshObjects(n - 1, used \cup {o})

\* the manual-entity dialog with no match listed
NoSearch == [term |-> <<>>, matches |-> {}]

\* a _detect_entities task that has not started: its position, the loop
\* index, total_paragraphs, the list the loop iterates, the value the worker
\* thread returns; and, for the record, the length of that list, the
\* iterations whose entities were appended, the iteration that raised,
\* app_state.entities as the task found it before clearing it, and the
\* entities appended by each iteration
IdleBatch ==
  [pc |-> "idle", i |-> 0, total |-> 0, plist |-> <<>>, pending |-> <<>>,
   n |-> 0, processed |-> {}, failed |-> -1, before |-> <<>>,
   results |-> <<>>]

\* no function is under test
NoCall == [op |-> "none", done |-> TRUE]

\* AppState() and the sections as constructed: AppState.reset(), no
\* detection task (of the n that may be started), no dialog
InitTasks(n) ==
  /\ original_transcript = <<>>
  /\ current_transcript = <<>>
  /\ heap = <<>>
  /\ paragraphs = <<>>
  /\ entities = <<>>
  /\ batches = [b \in 1..n |-> IdleBatch]
  /\ progress_dialog = 0
  /\ open_dialogs = {}
  /\ search_results = NoSearch
  /\ coding_schemes = <<>>
  /\ last_op = "init"

InitState == InitTasks(MaxBatchStarts)

\* the service of an EntitiesSection constructed after
\* initialize_nlp_models() returned: the models were loaded, could not be
\* loaded, or the call raised before it initialised a service
StartupServices ==
  { NewService("pipeline", TRUE), NewService("None", TRUE),
    NewService("None", FALSE) }

InitApp == InitState /\ nlp_service \in StartupServices

\* the application as started; no function is called on its own
Init == InitApp /\ call = NoCall

\* Init with the models loaded at startup; the handlers that never call the
\* NLP service behave the same whatever its state is
InitModelsLoaded == Init /\ nlp_service = NewService("pipeline", TRUE)

(***************************************************************************)
(* AppState.load_transcript, save_transcript_changes, reload_transcript    *)
(***************************************************************************)
\* the new Paragraph objects of _split_into_paragraphs(content)
NewParagraphs(content, oids) ==
  [k \in 1..Len(oids) |-> Paragraph(k - 1, SplitTexts(content)[k])]

\* _split_into_paragraphs: replaces app_state.paragraphs by new objects and
\* touches nothing else (app_state.entities in particular)
split_into_paragraphs(content) ==
  LET oids == FreshObjects(Len(SplitTexts(content)), BatchObjects(batches))
      new  == NewParagraphs(content, oids)
  IN  /\ paragraphs' = oids
      /\ heap' = [o \in Range(oids) \cup BatchObjects(batches) |->
                    IF o \in Range(oids)
                      THEN new[CHOOSE k \in 1..Len(oids) : oids[k] = o]
                      ELSE heap[o]]
      /\ UNCHANGED entities

load_transcript(content) ==
  /\ original_transcript' = content
  /\ current_transcript' = content
  /\ split_into_paragraphs(content)
  /\ last_op' = "load_transcript"
  /\ UNCHANGED <<nlp_service, batches, progress_dialog, open_dialogs,
                 search_results, coding_schemes, call>>

save_transcript_changes(new_content) ==
  /\ current_transcript' = new_content
  /\ split_into_paragraphs(new_content)
  /\ last_op' = "save_transcript_changes"
  /\ UNCHANGED <<original_transcript, nlp_service, batches, progress_dialog,
                 open_dialogs, search_results, coding_schemes, call>>

\* the working copy
WorkingCopy == current_transcript

\* the content reload_transcript restores
ReloadedContent == original_transcript

reload_transcript ==
  /\ current_transcript' = ReloadedContent
  /\ split_into_paragraphs(ReloadedContent)
  /\ last_op' = "reload_transcript"
  /\ UNCHANGED <<original_transcript, nlp_service, batches, progress_dialog,
                 open_dialogs, search_results, coding_schemes, call>>

(***************************************************************************)
(* Speaker, sentiment and code annotations                                 *)
(***************************************************************************)
\* speakers.py _toggle_speaker: ['client', 'therapist', 'unknown'], cyclic
NextSpeaker(sp) ==
  IF sp = "client" THEN "therapist"
  ELSE IF sp = "therapist" THEN "unknown"
  ELSE "client"

\* sentiment.py _toggle_sentiment:
\* ['positive', 'negative', 'neutral', 'mixed'], cyclic
NextSentiment(se) ==
  IF se = "positive" THEN "negative"
  ELSE IF se = "negative" THEN "neutral"
  ELSE IF se = "neutral" THEN "mixed"
  ELSE "positive"

toggle_speaker(i) ==
  /\ i \in 0..(Len(paragraphs) - 1)
  /\ heap' = [heap EXCEPT ![paragraphs[i + 1]].speaker =
                NextSpeaker(ParagraphAt(i).speaker)]
  /\ last_op' = "toggle_speaker"
  /\ UNCHANGED <<original_transcript, current_transcript, paragraphs,
                 entities, nlp_service, batches, progress_dialog,
                 open_dialogs, search_results, coding_schemes, call>>

toggle_sentiment(i) ==
  /\ i \in 0..(Len(paragraphs) - 1)
  /\ heap' = [heap EXCEPT ![paragraphs[i + 1]].sentiment =
                NextSentiment(ParagraphAt(i).sentiment)]
  /\ last_op' = "toggle_sentiment"
  /\ UNCHANGED <<original_transcript, current_transcript, paragraphs,
                 entities, nlp_service, batches, progress_dialog,
                 open_dialogs, search_results, coding_schemes, call>>

(***************************************************************************)
(* AppState.add_paragraph_code, remove_paragraph_code, add_coding_scheme,  *)
(* remove_coding_scheme and the encoding.py handlers that call them        *)
(***************************************************************************)
\* list.remove(x): drops the first occurrence
RECURSIVE RemoveFirst(_, _)
RemoveFirst(list, x) ==
  IF list = <<>> THEN <<>>
  ELSE IF Head(list) = x THEN Tail(list)
  ELSE <<Head(list)>> \o RemoveFirst(Tail(list), x)

\* the heap after a code is appended whether or not the list has it
append_paragraph_code(paragraph_id, code) ==
  IF 0 <= paragraph_id /\ paragraph_id < Len(paragraphs)
    THEN [heap EXCEPT ![paragraphs[paragraph_id + 1]].codes =
            Append(ParagraphAt(paragraph_id).codes, code)]
    ELSE heap

\* the heap after add_paragraph_code(paragraph_id, code)
add_paragraph_code(paragraph_id, code) ==
  IF /\ 0 <= paragraph_id /\ paragraph_id < Len(paragraphs)
     /\ code \notin Range(ParagraphAt(paragraph_id).codes)
    THEN [heap EXCEPT ![paragraphs[paragraph_id + 1]].codes =
            Append(ParagraphAt(paragraph_id).codes, code)]
    ELSE heap

\* the heap after remove_paragraph_code(paragraph_id, code)
remove_paragraph_code(paragraph_id, code) ==
  IF /\ 0 <= paragraph_id /\ paragraph_id < Len(paragraphs)
     /\ code \in Range(ParagraphAt(paragraph_id).codes)
    THEN [heap EXCEPT ![paragraphs[paragraph_id + 1]].codes =
            RemoveFirst(ParagraphAt(paragraph_id).codes, code)]
    ELSE heap

\* AppState.add_paragraph_code (add) or AppState.remove_paragraph_code
\* called with any paragraph id and any code
paragraph_code_call(paragraph_id, code, add) ==
  /\ heap' = IF add
               THEN add_paragraph_code(paragraph_id, code)
               ELSE remove_paragraph_code(paragraph_id, code)
  /\ last_op' = IF add THEN "add_paragraph_code" ELSE "remove_paragraph_code"
  /\ UNCHANGED <<original_transcript, current_transcript, paragraphs,
                 entities, nlp_service, batches, progress_dialog,
                 open_dialogs, search_results, coding_schemes, call>>

\* _toggle_paragraph_code for the displayed paragraph at list index i
toggle_paragraph_code(i, code_id, is_checked) ==
  /\ i \in 0..(Len(paragraphs) - 1)
  /\ code_id \in Range(coding_schemes)
  /\ heap' = IF is_checked
               THEN add_paragraph_code(ParagraphAt(i).id, code_id)
               ELSE remove_paragraph_code(ParagraphAt(i).id, code_id)
  /\ last_op' = "toggle_paragraph_code"
  /\ UNCHANGED <<original_transcript, current_transcript, paragraphs,
                 entities, nlp_service, batches, progress_dialog,
                 open_dialogs, search_results, coding_schemes, call>>

\* _add_coding_scheme: rejects an id that already exists
add_coding_scheme(code_id) ==
  /\ code_id \notin Range(coding_schemes)
  /\ coding_schemes' = Append(coding_schemes, code_id)
  /\ last_op' = "add_coding_scheme"
  /\ UNCHANGED <<original_transcript, current_transcript, heap, paragraphs,
                 entities, nlp_service, batches, progress_dialog,
                 open_dialogs, search_results, call>>

\* _delete_coding_scheme
remove_coding_scheme(scheme_id) ==
  /\ scheme_id \in Range(coding_schemes)
  /\ coding_schemes' = SelectSeq(coding_schemes, LAMBDA c : c # scheme_id)
  /\ last_op' = "remove_coding_scheme"
  /\ UNCHANGED <<original_transcript, current_transcript, heap, paragraphs,
                 entities, nlp_service, batches, progress_dialog,
                 open_dialogs, search_results, call>>

\* a survivor that keeps the id it had
KeptId(k, old_id) == old_id

(***************************************************************************)
(* SpeakersSection._drop_therapist_paragraphs                              *)
(***************************************************************************)
\* the id each surviving paragraph gets, given its new list index k (0-based)
ReassignedId(k, old_id) == k

drop_therapist_paragraphs ==
  LET kept == SelectSeq(paragraphs, LAMBDA o : heap[o].speaker # "therapist")
      h    == [o \in DOMAIN heap |->
                 IF o \in Range(kept)
                   THEN [heap[o] EXCEPT !.id =
                          ReassignedId(
                            (CHOOSE k \in 1..Len(kept) : kept[k] = o) - 1,
                            heap[o].id)]
                   ELSE heap[o]]
  IN  /\ paragraphs # <<>>
      /\ \E o \in Range(paragraphs) : heap[o].speaker = "therapist"
      /\ paragraphs' = kept
      /\ heap' = Collect(h, kept, batches)
      /\ current_transcript' =
           Join([k \in 1..Len(kept) |-> h[kept[k]].text], <<"\n", "\n">>)
      /\ last_op' = "drop_therapist_paragraphs"
      /\ UNCHANGED <<original_transcript, entities, nlp_service, batches,
                     progress_dialog, open_dialogs, search_results,
                     coding_schemes, call>>

(***************************************************************************)
(* Entity table handlers                                                   *)
(***************************************************************************)
\* _toggle_entity_anonymization for table row k (0-based)
toggle_entity_anonymization(k) ==
  /\ k \in 0..(Len(entities) - 1)
  /\ entities' = [entities EXCEPT ![k + 1].anonymized = ~entities[k + 1].anonymized]
  /\ last_op' = "toggle_entity_anonymization"
  /\ UNCHANGED <<original_transcript, current_transcript, heap, paragraphs,
                 nlp_service, batches, progress_dialog, open_dialogs,
                 search_results, coding_schemes, call>>

\* _remove_entity for table row k (0-based): entities.pop(k)
remove_entity(k) ==
  /\ k \in 0..(Len(entities) - 1)
  /\ entities' = SubSeq(entities, 1, k) \o SubSeq(entities, k + 2, Len(entities))
  /\ last_op' = "remove_entity"
  /\ UNCHANGED <<original_transcript, current_transcript, heap, paragraphs,
                 nlp_service, batches, progress_dialog, open_dialogs,
                 search_results, coding_schemes, call>>

\* _anonymize_all_entities
anonymize_all_entities ==
  /\ entities # <<>>
  /\ entities' = [k \in DOMAIN entities |->
                    [entities[k] EXCEPT !.anonymized = TRUE,
                                        !.replacement = ReplacementOf(entities[k])]]
  /\ last_op' = "anonymize_all_entities"
  /\ UNCHANGED <<original_transcript, current_transcript, heap, paragraphs,
                 nlp_service, batches, progress_dialog, open_dialogs,
                 search_results, coding_schemes, call>>

(***************************************************************************)
(* EntitiesSection._apply_anonymization                                    *)
(***************************************************************************)
\* the marked entities of every paragraph
AllMarked(es, paragraph_id) == SelectSeq(es, LAMBDA e : e.anonymized)

\* [e for e in anonymized_entities
\*    if hasattr(e, 'paragraph_id') and e.paragraph_id == paragraph.id]
MarkedEntitiesOf(es, paragraph_id) ==
  SelectSeq(es, LAMBDA e : /\ e.anonymized
                           /\ e.paragraph_id # NoParagraph
                           /\ e.paragraph_id = paragraph_id)

\* the text a paragraph object has after its iteration of the loop
AnonymizedParagraphText(p, es) ==
  IF MarkedEntitiesOf(es, p.id) # <<>>
    THEN anonymize_text(p.text, MarkedEntitiesOf(es, p.id))
    ELSE p.text

\* list indices (0-based) of the paragraphs whose iteration calls
\* anonymize_text
ParagraphsToAnonymize ==
  { i \in 0..(Len(paragraphs) - 1) :
      MarkedEntitiesOf(entities, ParagraphAt(i).id) # <<>> }

\* the Paragraph objects after the loop ran through the iterations before
\* list index stop
HeapAfterLoop(stop) ==
  [o \in DOMAIN heap |->
     IF \E i \in 0..(stop - 1) : paragraphs[i + 1] = o
       THEN [heap[o] EXCEPT !.text = AnonymizedParagraphText(heap[o], entities)]
       ELSE heap[o]]

\* _apply_anonymization.  fail_at = -1: no exception is raised; otherwise an
\* exception is raised in the iteration of list index fail_at (by
\* anonymize_text or by ui.notify) and `except Exception`, which is outside
\* the loop, reports it
apply_anonymization(fail_at) ==
  LET nothing == entities = <<>>
                   \/ ~\E k \in DOMAIN entities : entities[k].anonymized
      stop == IF fail_at = -1 THEN Len(paragraphs) ELSE fail_at
      h == IF nothing THEN heap ELSE HeapAfterLoop(stop)
  IN  /\ fail_at \in {-1} \cup (IF nothing THEN {} ELSE ParagraphsToAnonymize)
      /\ \A o \in Range(paragraphs) : Len(h[o].text) <= MaxTextLen
      /\ heap' = h
      /\ current_transcript' =
           IF nothing \/ fail_at # -1 THEN current_transcript
           ELSE Join([k \in 1..Len(paragraphs) |-> h[paragraphs[k]].text],
                     <<"\n", "\n">>)
      /\ entities' = IF nothing \/ fail_at # -1 THEN entities ELSE <<>>
      /\ last_op' = "apply_anonymization"
      /\ UNCHANGED <<original_transcript, paragraphs, nlp_service, batches,
                     progress_dialog, open_dialogs, search_results,
                     coding_schemes, call>>

(***************************************************************************)
(* Manual entities: _show_manual_entity_dialog.search_text,                *)
(* _add_entity_without_search, _create_entity_from_match                   *)
(***************************************************************************)
\* replacement.strip() if replacement else f'[{entity_type}]'
ManualReplacement(replacement, type) ==
  IF replacement # <<>> THEN Strip(replacement) ELSE Placeholder(type)

\* Entity(...) of a manual insertion, with entity.paragraph_id = pid
ManualEntity(text, type, start, end, replacement, pid) ==
  [Entity(text, type, start, end) EXCEPT
     !.replacement = ManualReplacement(replacement, type),
     !.paragraph_id = pid]

\* next(e for e in entities if e.text.lower() == entity_text_clean.lower())
ExistsWithText(es, clean) ==
  \E k \in DOMAIN es : Lower(es[k].text) = Lower(clean)

\* next(e for e in entities if hasattr(e, 'paragraph_id')
\*        and e.paragraph_id == i and e.start_pos == pos)
ExistsAtPosition(es, i, pos) ==
  \E k \in DOMAIN es : /\ es[k].paragraph_id # NoParagraph
                       /\ es[k].paragraph_id = i
                       /\ es[k].start_pos = pos

\* a scan that resumes behind the whole match
ResumeBehindMatch(pos, clean) == pos + Len(clean)

\* where the scan of a paragraph resumes after a match at pos
ResumeAfter(pos, clean) == pos + 1

\* the while loop over one paragraph: entities after scanning from start_pos
RECURSIVE ScanParagraph(_, _, _, _, _, _, _)
ScanParagraph(es, ptext, i, clean, type, replacement, start_pos) ==
  LET pos == PyFind(Lower(ptext), Lower(clean), start_pos)
      actual_text == PySlice(ptext, pos, pos + Len(clean))
      end_pos == pos + Len(actual_text)
      e == ManualEntity(actual_text, type, pos, end_pos, replacement, i)
  IN  IF pos = -1 THEN es
      ELSE ScanParagraph(
             IF ExistsAtPosition(es, i, pos) THEN es ELSE Append(es, e),
             ptext, i, clean, type, replacement, ResumeAfter(pos, clean))

\* the for loop over the paragraphs, from list index i on
RECURSIVE ScanParagraphs(_, _, _, _, _)
ScanParagraphs(es, i, clean, type, replacement) ==
  IF i >= Len(paragraphs) THEN es
  ELSE ScanParagraphs(
         ScanParagraph(es, ParagraphAt(i).text, i, clean, type, replacement, 0),
         i + 1, clean, type, replacement)

\* a record entity tied to the first paragraph
RecordInFirstParagraph(clean, type, replacement) ==
  ManualEntity(clean, type, 0, Len(clean), replacement, 0)

\* the entity added when entities_created == 0
GeneralEntity(clean, type, replacement) ==
  ManualEntity(clean, type, 0, Len(clean), replacement, NoParagraph)

\* app_state.entities after _add_entity_without_search ran past its checks
EntitiesAfterBulkInsert(es, clean, type, replacement) ==
  LET scanned == ScanParagraphs(es, 0, clean, type, replacement)
  IN  IF Len(scanned) = Len(es)
        THEN Append(es, GeneralEntity(clean, type, replacement))
        ELSE scanned

add_entity_without_search(entity_text, entity_type, replacement) ==
  LET clean == Strip(entity_text)
      rejected == clean = <<>> \/ ExistsWithText(entities, clean)
      after == IF rejected THEN entities
               ELSE EntitiesAfterBulkInsert(entities, clean, entity_type,
                                            replacement)
  IN  /\ Len(after) <= MaxEntities
      /\ entities' = after
      /\ search_results' = IF rejected THEN search_results ELSE NoSearch
      /\ last_op' = "add_entity_without_search"
      /\ UNCHANGED <<original_transcript, current_transcript, heap,
                     paragraphs, nlp_service, batches, progress_dialog,
                     open_dialogs, coding_schemes, call>>

\* search_text: the matches listed for the stripped input, one per paragraph
\* whose text contains it
search_text(input) ==
  LET search_term == Strip(input)
  IN  /\ search_results' =
           [term |-> search_term,
            matches |-> IF search_term = <<>> THEN {}
                        ELSE { i \in 0..(Len(paragraphs) - 1) :
                                 PyContains(Lower(ParagraphAt(i).text),
                                            Lower(search_term)) }]
      /\ last_op' = "search_text"
      /\ UNCHANGED <<original_transcript, current_transcript, heap,
                     paragraphs, entities, nlp_service, batches,
                     progress_dialog, open_dialogs, coding_schemes, call>>

\* next(e for e in entities if hasattr(e, 'paragraph_id')
\*        and e.paragraph_id == paragraph_id)
ExistsInParagraph(es, paragraph_id) ==
  \E k \in DOMAIN es : /\ es[k].paragraph_id # NoParagraph
                       /\ es[k].paragraph_id = paragraph_id

\* a duplicate check by text instead of by paragraph
RejectedByText(es, paragraph_id, entity_text) ==
  ExistsWithText(es, entity_text)

\* the duplicate check of _create_entity_from_match
MatchRejected(es, paragraph_id, entity_text) ==
  ExistsInParagraph(es, paragraph_id)

\* app_state.entities after _create_entity_from_match; indexing
\* app_state.paragraphs out of range raises and leaves the list as it was
EntitiesAfterMatch(es, entity_text, type, replacement, paragraph_id) ==
  IF paragraph_id >= Len(paragraphs) THEN es
  ELSE LET ptext == ParagraphAt(paragraph_id).text
           start_pos == PyFind(Lower(ptext), Lower(entity_text), 0)
           actual_text == PySlice(ptext, start_pos, start_pos + Len(entity_text))
           end_pos == start_pos + Len(actual_text)
       IN  IF start_pos = -1 THEN es
           ELSE IF MatchRejected(es, paragraph_id, entity_text) THEN es
           ELSE Append(es, ManualEntity(actual_text, type, start_pos, end_pos,
                                        replacement, paragraph_id))

\* "Select This Match" on the button of match m
create_entity_from_match(entity_type, replacement, m) ==
  LET after == EntitiesAfterMatch(entities, search_results.term, entity_type,
                                  replacement, m)
  IN  /\ m \in search_results.matches
      /\ Len(after) <= MaxEntities
      /\ entities' = after
      /\ search_results' = IF after = entities THEN search_results ELSE NoSearch
      /\ last_op' = "create_entity_from_match"
      /\ UNCHANGED <<original_transcript, current_transcript, heap,
                     paragraphs, nlp_service, batches, progress_dialog,
                     open_dialogs, coding_schemes, call>>

(***************************************************************************)
(* EntitiesSection._detect_entities, _open_progress_dialog,                *)
(* _close_progress_dialog                                                  *)
(*                                                                         *)
(* A batch is an asyncio task.  It gives up the event loop at its awaits:  *)
(* after the dialog is opened ("opened"), while extract_entities runs in a *)
(* worker thread ("thread"), and in asyncio.sleep(0.01) after the          *)
(* iterations that refresh the tables ("yield").  Other handlers run in    *)
(* between.                                                                *)
(***************************************************************************)
\* _close_progress_dialog: the open dialogs afterwards
DialogsAfterClose ==
  IF progress_dialog # 0 THEN open_dialogs \ {progress_dialog} ELSE open_dialogs

\* the batch record at `await asyncio.to_thread(extract_entities, text)` of
\* iteration i; the value the thread will return is fixed here
AwaitThread(bt, i, result) ==
  [bt EXCEPT !.pc = "thread", !.i = i, !.pending = result]

\* the task has returned
Finished(bt) == [bt EXCEPT !.pc = "done", !.plist = <<>>, !.pending = <<>>]

\* the values extract_entities may return for the text in the worker thread,
\* each with the service as the call leaves it
ThreadResults(text) ==
  { [result |-> extract_entities(nlp_service, text, ok, out).entities,
     service |-> ServiceAfterInit(nlp_service, ok)] :
      ok \in BOOLEAN, out \in StanzaOutcomes(text) }

\* the loop reaches iteration i of the list it iterates: either the list is
\* exhausted and the task ends (final refresh, finally: close the dialog),
\* or the next extract_entities call is started
EnterIteration(b, bt, i) ==
  IF i >= Len(bt.plist)
    THEN /\ batches' = [batches EXCEPT ![b] = Finished(bt)]
         /\ heap' = Collect(heap, paragraphs,
                            [batches EXCEPT ![b] = Finished(bt)])
         /\ open_dialogs' = DialogsAfterClose
         /\ progress_dialog' = 0
         /\ UNCHANGED nlp_service
    ELSE /\ \E r \in ThreadResults(heap[bt.plist[i + 1]].text) :
              /\ batches' = [batches EXCEPT ![b] = AwaitThread(bt, i, r.result)]
              /\ nlp_service' = r.service
         /\ UNCHANGED <<heap, open_dialogs, progress_dialog>>

\* the task after an exception escaped from iteration bt.i of the loop:
\* the except clause is outside the for loop, so the loop is over
AfterException(bt) == [Finished(bt) EXCEPT !.failed = bt.i]

\* "Proceed" in the warning dialog: the task starts, opens the progress
\* dialog and awaits asyncio.sleep(0)
detect_start(b) ==
  /\ batches[b].pc = "idle"
  /\ \A c \in 1..(b - 1) : batches[c].pc # "idle"
  /\ IF paragraphs = <<>>
       THEN /\ batches' = [batches EXCEPT ![b] = Finished(@)]
            /\ UNCHANGED <<progress_dialog, open_dialogs>>
       ELSE /\ batches' = [batches EXCEPT ![b].pc = "opened",
                                          ![b].total = Len(paragraphs)]
            /\ progress_dialog' = b
            /\ open_dialogs' = open_dialogs \cup {b}
  /\ last_op' = "detect_start"
  /\ UNCHANGED <<original_transcript, current_transcript, heap, paragraphs,
                 entities, nlp_service, search_results, coding_schemes, call>>

\* app_state.entities = [] and entry into the for loop over the list that
\* app_state.paragraphs is now
detect_clear(b) ==
  /\ batches[b].pc = "opened"
  /\ entities' = <<>>
  /\ EnterIteration(b, [batches[b] EXCEPT !.plist = paragraphs,
                                          !.n = Len(paragraphs),
                                          !.before = entities], 0)
  /\ last_op' = "detect_clear"
  /\ UNCHANGED <<original_transcript, current_transcript, paragraphs,
                 search_results, coding_schemes, call>>

\* the entities appended as extract_entities returned them
AppendUntagged(es, found, paragraph_id) == es \o found

\* entity.paragraph_id = paragraph.id; app_state.entities.append(entity)
RECURSIVE AppendDetected(_, _, _)
AppendDetected(es, found, paragraph_id) ==
  IF found = <<>> THEN es
  ELSE AppendDetected(
         Append(es, [Head(found) EXCEPT !.paragraph_id = paragraph_id]),
         Tail(found), paragraph_id)

\* i % 5 == 0 or i == total_paragraphs - 1
RefreshDue(i, total) == i % 5 = 0 \/ i = total - 1

\* the thread returned: the entities are appended; the task then sleeps or
\* goes straight on to the next iteration
detect_resume(b) ==
  LET bt == batches[b]
      after == AppendDetected(entities, bt.pending, heap[bt.plist[bt.i + 1]].id)
      appended == AppendDetected(<<>>, bt.pending, heap[bt.plist[bt.i + 1]].id)
      bt2 == [bt EXCEPT !.pending = <<>>,
                        !.processed = @ \cup {bt.i},
                        !.results = Append(@, appended)]
  IN  /\ bt.pc = "thread"
      /\ Len(after) <= MaxEntities
      /\ entities' = after
      /\ IF RefreshDue(bt.i, bt.total)
           THEN /\ batches' = [batches EXCEPT ![b] = [bt2 EXCEPT !.pc = "yield"]]
                /\ UNCHANGED <<heap, open_dialogs, progress_dialog, nlp_service>>
           ELSE EnterIteration(b, bt2, bt.i + 1)
      /\ last_op' = "detect_resume"
      /\ UNCHANGED <<original_transcript, current_transcript, paragraphs,
                     search_results, coding_schemes, call>>

\* asyncio.sleep(0.01) is over: next iteration
detect_continue(b) ==
  /\ batches[b].pc = "yield"
  /\ EnterIteration(b, batches[b], batches[b].i + 1)
  /\ last_op' = "detect_continue"
  /\ UNCHANGED <<original_transcript, current_transcript, paragraphs,
                 entities, search_results, coding_schemes, call>>

\* an exception is raised inside the loop body (the awaited call, or a UI
\* update under `with client`): `except Exception` around the whole loop
\* reports it, `finally` closes the dialog, and the task ends
detect_raise(b) ==
  /\ batches[b].pc = "thread"
  /\ batches' = [batches EXCEPT ![b] = AfterException(@)]
  /\ heap' = Collect(heap, paragraphs,
                     [batches EXCEPT ![b] = AfterException(@)])
  /\ open_dialogs' = DialogsAfterClose
  /\ progress_dialog' = 0
  /\ last_op' = "detect_raise"
  /\ UNCHANGED <<original_transcript, current_transcript, paragraphs,
                 entities, nlp_service, search_results, coding_schemes, call>>

(***************************************************************************)
(* Specifications.  Each one lets the handlers of one part of the          *)
(* application run in any order, from the state main() constructs.         *)
(***************************************************************************)
TranscriptStep(uploads) ==
  \/ \E content \in uploads : load_transcript(content)
  \/ \E content \in EditedContents : save_transcript_changes(content)
  \/ reload_transcript

ManualStep ==
  \/ \E t \in ManualTexts, ty \in ManualTypes, r \in ManualReplacements :
       add_entity_without_search(t, ty, r)
  \/ \E t \in ManualTexts : search_text(t)
  \/ \E ty \in ManualTypes, r \in ManualReplacements, m \in search_results.matches :
       create_entity_from_match(ty, r, m)
  \/ \E k \in 0..(Len(entities) - 1) : remove_entity(k)

\* the transcript and the manual-entity dialog
Next ==
  \/ TranscriptStep(Uploads)
  \/ ManualStep

Spec == InitModelsLoaded /\ [][Next]_vars

SpeakerStep ==
  \/ \E i \in 0..(Len(paragraphs) - 1) : toggle_speaker(i)
  \/ drop_therapist_paragraphs

\* the transcript and the speakers section
NextSpeakers ==
  \/ TranscriptStep(Uploads \cup {TranscriptC})
  \/ SpeakerStep

SpecSpeakers == InitModelsLoaded /\ [][NextSpeakers]_vars

DetectStep ==
  \E b \in 1..MaxBatchStarts :
    \/ detect_start(b)
    \/ detect_clear(b)
    \/ detect_resume(b)
    \/ detect_continue(b)
    \/ detect_raise(b)

\* the transcript and entity detection
NextDetect ==
  \/ TranscriptStep(Uploads)
  \/ DetectStep

SpecDetect == Init /\ [][NextDetect]_vars

\* the steps the task of batch b takes once it is started
TaskStep(b) ==
  \/ detect_clear(b)
  \/ detect_resume(b)
  \/ detect_continue(b)
  \/ detect_raise(b)

\* the text typed into the manual-entity dialog around a detection: "Aa"
InterleavedText == <<"A","a">>

\* the transcript, entity detection and the bulk insert of the manual-entity
\* dialog
NextInterleave ==
  \/ TranscriptStep(Uploads)
  \/ DetectStep
  \/ \E ty \in ManualTypes, r \in ManualReplacements :
       add_entity_without_search(InterleavedText, ty, r)

SpecInterleave == InitModelsLoaded /\ [][NextInterleave]_vars

\* texts typed into the manual-entity dialog before anonymization: "aa", "b"
ApplyTexts == { <<"a","a">>, <<"b">> }

AnonymizeStep ==
  \/ \E k \in 0..(Len(entities) - 1) : toggle_entity_anonymization(k)
  \/ anonymize_all_entities
  \/ \E fail_at \in -1..(Len(paragraphs) - 1) : apply_anonymization(fail_at)

\* the transcript, the bulk insert of the manual-entity dialog and the
\* anonymization of the entities
NextApply ==
  \/ TranscriptStep(Uploads)
  \/ \E t \in ApplyTexts, ty \in ManualTypes, r \in ManualReplacements :
       add_entity_without_search(t, ty, r)
  \/ AnonymizeStep

SpecApply == InitModelsLoaded /\ [][NextApply]_vars

\* every handler that rewrites the transcript or its paragraphs, and the
\* entity handlers
NextRetain ==
  \/ TranscriptStep(Uploads)
  \/ \E ty \in ManualTypes, r \in ManualReplacements :
       add_entity_without_search(InterleavedText, ty, r)
  \/ \E k \in 0..(Len(entities) - 1) : remove_entity(k)
  \/ AnonymizeStep
  \/ SpeakerStep

SpecRetain == InitModelsLoaded /\ [][NextRetain]_vars

\* no detection task is between its start and its end
Quiet == \A b \in DOMAIN batches : batches[b].pc \in {"idle", "done"}

\* detection batches that run with no other handler in between: the
\* transcript, the bulk insert and "anonymize all" run while no task does
NextQuiet ==
  \/ Quiet /\ TranscriptStep(Uploads)
  \/ /\ Quiet
     /\ \E ty \in ManualTypes, r \in ManualReplacements :
          add_entity_without_search(InterleavedText, ty, r)
  \/ Quiet /\ anonymize_all_entities
  \/ \E b \in 1..MaxBatchStarts : Quiet /\ detect_start(b)
  \/ \E b \in 1..MaxBatchStarts : TaskStep(b)

\* the event loop resumes a task whose sleep is over: weak fairness of
\* detect_clear(b) \/ detect_continue(b), which is enabled exactly when
\* the task is at "opened" or at "yield"
Resumed(b) ==
  \/ []<>(batches[b].pc \notin {"opened", "yield"})
  \/ []<><<detect_clear(b) \/ detect_continue(b)>>_vars

\* the worker thread returns, with a value or with an exception, and the
\* event loop resumes the task
SpecQuiet ==
  /\ Init
  /\ [][NextQuiet]_vars
  /\ \A b \in 1..MaxBatchStarts :
       WF_vars(detect_resume(b) \/ detect_raise(b)) /\ Resumed(b)

\* detection started again while a detection task runs: uploads and up to
\* MaxTasks tasks, each started by "Proceed" in the warning dialog
NextOverlap ==
  \/ \E content \in Uploads : load_transcript(content)
  \/ \E b \in 1..MaxTasks : detect_start(b)
  \/ \E b \in 1..MaxTasks : TaskStep(b)

SpecOverlap ==
  /\ InitTasks(MaxTasks)
  /\ nlp_service = NewService("pipeline", TRUE)
  /\ call = NoCall
  /\ [][NextOverlap]_vars

SchemeStep ==
  \/ \E code_id \in SchemeIds : add_coding_scheme(code_id)
  \/ \E scheme_id \in SchemeIds : remove_coding_scheme(scheme_id)

\* the transcript and the encoding section
NextCodes ==
  \/ TranscriptStep(Uploads)
  \/ SchemeStep
  \/ \E i \in 0..(Len(paragraphs) - 1), code_id \in SchemeIds,
         is_checked \in BOOLEAN :
       toggle_paragraph_code(i, code_id, is_checked)

SpecCodes == InitModelsLoaded /\ [][NextCodes]_vars

\* the transcript and the two code methods of AppState, called with every
\* paragraph id from -1 to the length of the list
NextCodeCalls ==
  \/ TranscriptStep(Uploads)
  \/ \E paragraph_id \in -1..Len(paragraphs), code \in SchemeIds,
         add \in BOOLEAN :
       paragraph_code_call(paragraph_id, code, add)

SpecCodeCalls == InitModelsLoaded /\ [][NextCodeCalls]_vars

(***************************************************************************)
(* NLPService.anonymize_text called on its own                             *)
(***************************************************************************)
\* most entities in the list passed to one call
MaxCallEntities == 2

\* the text passed to anonymize_text: "abc"
CallText == <<"a","b","c">>

\* replacements of the entities passed: none (the placeholder is used), "X"
CallReplacements == { <<>>, <<"X">> }

\* the entities passed: every non-empty span inside the text, marked or not
CallEntities ==
  { [Entity(PySlice(CallText, sp[1], sp[2]), DATE, sp[1], sp[2])
       EXCEPT !.anonymized = a, !.replacement = r] :
      sp \in { x \in (0..Len(CallText)) \X (0..Len(CallText)) : x[1] < x[2] },
      a \in BOOLEAN, r \in CallReplacements }

\* the lists of at most n entities
EntityLists(n) ==
  UNION { [1..k -> CallEntities] : k \in 0..n }

\* a caller holds a text and a list of entities
InitAnonymize ==
  /\ InitState
  /\ nlp_service = NewService("pipeline", TRUE)
  /\ call \in { [op |-> "anonymize_text", done |-> FALSE, text |-> CallText,
                 entities |-> es, result |-> <<>>] :
                es \in EntityLists(MaxCallEntities) }

\* result = nlp_service.anonymize_text(text, entities)
anonymize_call ==
  /\ call.op = "anonymize_text"
  /\ ~call.done
  /\ call' = [call EXCEPT !.done = TRUE,
                          !.result = anonymize_text(call.text, call.entities)]
  /\ UNCHANGED <<original_transcript, current_transcript, heap, paragraphs,
                 entities, nlp_service, batches, progress_dialog,
                 open_dialogs, search_results, coding_schemes, last_op>>

NextAnonymize == anonymize_call

SpecAnonymize == InitAnonymize /\ [][NextAnonymize]_vars

(***************************************************************************)
(* NLPService.extract_entities called on its own                           *)
(***************************************************************************)
\* the texts passed to extract_entities: "Aa Bb", "the Aa", "5%", "aa"
ExtractTexts ==
  { <<"A","a"," ","B","b">>, <<"t","h","e"," ","A","a">>, <<"5","%">>,
    <<"a","a">> }

\* a caller holds a text; what loading the models and the pipeline will do
\* is fixed by the environment
InitExtract ==
  /\ InitState
  /\ nlp_service \in StartupServices
  /\ call \in { [op |-> "extract_entities", done |-> FALSE, text |-> t,
                 load_ok |-> ok, outcome |-> out,
                 result |-> Returned(<<>>)] :
                t \in ExtractTexts, ok \in BOOLEAN,
                out \in UNION { StanzaOutcomes(x) : x \in ExtractTexts } }
  /\ call.outcome \in StanzaOutcomes(call.text)

\* result = nlp_service.extract_entities(text)
extract_call ==
  /\ call.op = "extract_entities"
  /\ ~call.done
  /\ call' = [call EXCEPT !.done = TRUE,
                          !.result = extract_entities(nlp_service, call.text,
                                       call.load_ok, call.outcome)]
  /\ nlp_service' = ServiceAfterInit(nlp_service, call.load_ok)
  /\ UNCHANGED <<original_transcript, current_transcript, heap, paragraphs,
                 entities, batches, progress_dialog, open_dialogs,
                 search_results, coding_schemes, last_op>>

NextExtract == extract_call

SpecExtract == InitExtract /\ [][NextExtract]_vars

(***************************************************************************)
(* AppState._split_into_paragraphs called on its own                       *)
(***************************************************************************)
\* longest short content
MaxContentLen == 5

\* longest ending of a long content
MaxTailLen == 4

\* the strings over an alphabet of length at most n
StringsOver(alphabet, n) == UNION { [1..k -> alphabet] : k \in 0..n }

\* short contents: letters, blanks, line breaks and sentence punctuation
ShortContents == StringsOver({"a", " ", "\n", ".", "?"}, MaxContentLen)

\* n letters
Filler(n) == [k \in 1..n |-> "a"]

\* long contents: a run of letters that, with the first three characters of
\* the ending, is as long as or longer than the threshold of the post-pass;
\* an ending of periods, blanks, capitals and question marks; a closing line
\* break or none
LongContents ==
  { Filler(n) \o tail \o nl :
      n \in {LongParagraphThreshold - 3, LongParagraphThreshold},
      tail \in StringsOver({".", " ", "B", "?"}, MaxTailLen),
      nl \in { <<>>, <<"\n">> } }

\* a caller holds a content
InitSegment ==
  /\ InitState
  /\ nlp_service = NewService("pipeline", TRUE)
  /\ call \in { [op |-> "split_into_paragraphs", done |-> FALSE,
                 content |-> c, primary |-> <<>>, result |-> <<>>] :
                c \in ShortContents \cup LongContents }

\* _split_into_paragraphs(content): paragraphs_text after the three
\* strategies, and the texts of the paragraphs stored
segment_call ==
  /\ call.op = "split_into_paragraphs"
  /\ ~call.done
  /\ call' = [call EXCEPT !.done = TRUE,
                          !.primary = PrimarySplit(call.content),
                          !.result = SplitTexts(call.content)]
  /\ UNCHANGED <<original_transcript, current_transcript, heap, paragraphs,
                 entities, nlp_service, batches, progress_dialog,
                 open_dialogs, search_results, coding_schemes, last_op>>

NextSegment == segment_call

SpecSegment == InitSegment /\ [][NextSegment]_vars

(***************************************************************************)
(* utils.text_processing.extract_meaningful_words                          *)
(*                                                                         *)
(* The texts of the model are ASCII: of the stop words and of the letter   *)
(* class of the tokenizer only the ASCII part can meet them.               *)
(***************************************************************************)
\* the stop words (English, Spanish, French, Portuguese)
stop_words ==
  {
    <<"a">>, <<"a","g","a","i","n">>, <<"a","i","n","d","a">>, <<"a","l">>,
    <<"a","l","g","u","m">>, <<"a","l","g","u","m","a">>,
    <<"a","l","g","u","m","a","s">>, <<"a","l","g","u","n","s">>,
    <<"a","l","l">>, <<"a","l","s","o">>, <<"a","m">>, <<"a","n">>,
    <<"a","n","d">>, <<"a","n","t","e">>, <<"a","n","y">>, <<"a","o">>,
    <<"a","o","s">>, <<"a","q","u","e","l">>, <<"a","q","u","e","l","a">>,
    <<"a","q","u","e","l","a","s">>, <<"a","q","u","e","l","e">>,
    <<"a","q","u","e","l","e","s">>, <<"a","q","u","e","l","l","a">>,
    <<"a","q","u","e","l","l","a","s">>,
    <<"a","q","u","e","l","l","o","s">>, <<"a","r","e">>, <<"a","s">>,
    <<"a","s","s","i","m">>, <<"a","t">>, <<"a","u","n","q","u","e">>,
    <<"a","u","q","u","e","l">>, <<"a","u","s","s","i">>,
    <<"a","u","x","q","u","e","l","l","e","s">>,
    <<"a","u","x","q","u","e","l","s">>, <<"a","v","e","c">>,
    <<"a","v","o","i","r">>, <<"b","a","c","k">>, <<"b","a","d">>,
    <<"b","a","j","o">>, <<"b","a","s","t","a","n","t","e">>, <<"b","e">>,
    <<"b","e","e","n">>, <<"b","e","i","n","g">>, <<"b","e","m">>,
    <<"b","i","e","n">>, <<"b","i","g">>, <<"b","u","t">>, <<"b","y">>,
    <<"c","a","n">>, <<"c","a","r">>, <<"c","a","s","o">>, <<"c","e">>,
    <<"c","e","l","l","e">>, <<"c","e","l","l","e","s">>,
    <<"c","e","l","u","i">>, <<"c","e","r","t","a">>,
    <<"c","e","r","t","a","s">>, <<"c","e","r","t","o">>,
    <<"c","e","r","t","o","s">>, <<"c","e","s">>, <<"c","e","t","t","e">>,
    <<"c","e","u","x">>, <<"c","o","m">>, <<"c","o","m","b","i","e","n">>,
    <<"c","o","m","m","e">>, <<"c","o","m","m","e","n","t">>,
    <<"c","o","m","o">>, <<"c","o","n">>, <<"c","o","n","t","r","a">>,
    <<"c","o","n","t","u","d","o">>, <<"c","o","u","l","d">>,
    <<"c","u","a","n","d","o">>, <<"c","u","a","n","t","o">>, <<"d","a">>,
    <<"d","a","n","s">>, <<"d","a","q","u","e","l","a">>,
    <<"d","a","q","u","e","l","a","s">>, <<"d","a","q","u","e","l","e">>,
    <<"d","a","q","u","e","l","e","s">>, <<"d","a","s">>, <<"d","e">>,
    <<"d","e","l">>, <<"d","e","l","a">>, <<"d","e","l","a","s">>,
    <<"d","e","l","e">>, <<"d","e","l","e","s">>,
    <<"d","e","m","a","i","n">>, <<"d","e","m","a","i","s">>,
    <<"d","e","p","o","i","s">>, <<"d","e","s","d","e">>,
    <<"d","e","s","q","u","e","l","l","e","s">>,
    <<"d","e","s","q","u","e","l","s">>, <<"d","e","s","s","a">>,
    <<"d","e","s","s","a","s">>, <<"d","e","s","s","e">>,
    <<"d","e","s","s","e","s">>, <<"d","i","d">>, <<"d","i","s","s","o">>,
    <<"d","i","s","t","o">>, <<"d","i","v","e","r","s","a">>,
    <<"d","i","v","e","r","s","a","s">>, <<"d","i","v","e","r","s","o">>,
    <<"d","i","v","e","r","s","o","s">>, <<"d","o">>, <<"d","o","e","s">>,
    <<"d","o","n","c">>, <<"d","o","n","d","e">>, <<"d","o","n","t">>,
    <<"d","o","s">>, <<"d","o","w","n">>, <<"d","u">>,
    <<"d","u","q","u","e","l">>, <<"d","u","r","a","n","t","e">>, <<"e">>,
    <<"e","l">>, <<"e","l","a">>, <<"e","l","e">>, <<"e","l","l","a">>,
    <<"e","l","l","a","s">>, <<"e","l","l","e","s">>,
    <<"e","l","l","o","s">>, <<"e","m">>, <<"e","m","b","o","r","a">>,
    <<"e","n">>, <<"e","n","c","o","r","e">>, <<"e","n","t","r","e">>,
    <<"e","n","t","r","e","t","a","n","t","o">>, <<"e","r","a">>,
    <<"e","s","a">>, <<"e","s","a","s">>, <<"e","s","e">>,
    <<"e","s","o","s">>, <<"e","s","s","a">>, <<"e","s","s","a","s">>,
    <<"e","s","s","e">>, <<"e","s","s","e","s">>, <<"e","s","t","a">>,
    <<"e","s","t","a","s">>, <<"e","s","t","e">>, <<"e","s","t","e","s">>,
    <<"e","s","t","o","s">>, <<"e","t">>, <<"e","u">>, <<"e","v","e","n">>,
    <<"e","x","c","e","p","t","o">>, <<"f","e","w">>,
    <<"f","i","r","s","t">>, <<"f","o","i">>, <<"f","o","r">>,
    <<"f","u","r","t","h","e","r">>, <<"g","o","o","d">>,
    <<"g","r","a","n","d">>, <<"h","a","c","e">>, <<"h","a","c","i","a">>,
    <<"h","a","d">>, <<"h","a","s">>, <<"h","a","s","t","a">>,
    <<"h","a","v","e">>, <<"h","e">>, <<"h","e","r">>, <<"h","e","r","e">>,
    <<"h","e","r","s">>, <<"h","i","e","r">>, <<"h","i","g","h">>,
    <<"h","i","m">>, <<"h","i","s">>, <<"h","o","w">>, <<"i">>,
    <<"i","c","i">>, <<"i","l">>, <<"i","l","s">>, <<"i","n">>,
    <<"i","n","c","l","u","s","o">>, <<"i","s">>, <<"i","s","s","o">>,
    <<"i","s","t","o">>, <<"i","t">>, <<"i","t","s">>,
    <<"j","a","m","a","i","s">>, <<"j","u","s","t">>, <<"l","a">>,
    <<"l","a","q","u","e","l","l","e">>, <<"l","a","r","g","e">>,
    <<"l","a","s">>, <<"l","a","s","t">>, <<"l","e">>, <<"l","e","f","t">>,
    <<"l","e","q","u","e","l">>,
    <<"l","e","s","q","u","e","l","l","e","s">>,
    <<"l","e","s","q","u","e","l","s">>, <<"l","e","s","s">>,
    <<"l","e","u","r">>, <<"l","e","u","r","s">>, <<"l","h","e">>,
    <<"l","h","e","s">>, <<"l","i","t","t","l","e">>, <<"l","o">>,
    <<"l","o","g","o">>, <<"l","o","n","g">>, <<"l","o","s">>,
    <<"l","o","w">>, <<"m","a","i","n","t","e","n","a","n","t">>,
    <<"m","a","i","s">>, <<"m","a","l">>, <<"m","a","n","y">>,
    <<"m","a","s">>, <<"m","a","y">>, <<"m","e">>,
    <<"m","e","d","i","a","n","t","e">>, <<"m","e","l","h","o","r">>,
    <<"m","e","n","o","s">>, <<"m","e","s">>, <<"m","e","s","m","o">>,
    <<"m","e","u">>, <<"m","e","u","s">>, <<"m","i">>,
    <<"m","i","e","n","t","r","a","s">>, <<"m","i","g","h","t">>,
    <<"m","i","n","e">>, <<"m","i","n","h","a">>,
    <<"m","i","n","h","a","s">>, <<"m","o","n">>, <<"m","o","r","e">>,
    <<"m","o","s","t">>, <<"m","u","c","h">>, <<"m","u","i","t","o">>,
    <<"m","u","s","t">>, <<"m","u","y">>, <<"m","y">>, <<"n","a">>,
    <<"n","a","q","u","e","l","a">>, <<"n","a","q","u","e","l","a","s">>,
    <<"n","a","q","u","e","l","e">>, <<"n","a","q","u","e","l","e","s">>,
    <<"n","e">>, <<"n","e","n","h","u","m">>,
    <<"n","e","n","h","u","m","a">>, <<"n","e","n","h","u","m","a","s">>,
    <<"n","e","n","h","u","n","s">>, <<"n","e","s","s","a">>,
    <<"n","e","s","s","a","s">>, <<"n","e","s","s","e">>,
    <<"n","e","s","s","e","s">>, <<"n","e","w">>, <<"n","i">>,
    <<"n","i","s","s","o">>, <<"n","i","s","t","o">>, <<"n","o">>,
    <<"n","o","s">>, <<"n","o","s","o","t","r","o","s">>,
    <<"n","o","s","s","a">>, <<"n","o","s","s","a","s">>,
    <<"n","o","s","s","o">>, <<"n","o","s","s","o","s">>, <<"n","o","t">>,
    <<"n","o","t","r","e">>, <<"n","o","u","s">>, <<"n","o","w">>,
    <<"n","u","e","s","t","r","o">>, <<"n","u","m","a">>, <<"o">>,
    <<"o","f">>, <<"o","f","f">>, <<"o","l","d">>, <<"o","n">>,
    <<"o","n","c","e">>, <<"o","n","d","e">>, <<"o","n","l","y">>,
    <<"o","r">>, <<"o","s">>, <<"o","u">>, <<"o","u","r">>,
    <<"o","u","r","s">>, <<"o","u","t">>, <<"o","u","t","r","a">>,
    <<"o","u","t","r","a","s">>, <<"o","u","t","r","o">>,
    <<"o","u","t","r","o","s">>, <<"o","v","e","r">>, <<"o","w","n">>,
    <<"p","a","r">>, <<"p","a","r","a">>, <<"p","a","r","f","o","i","s">>,
    <<"p","a","r","t","o","u","t">>, <<"p","a","s">>, <<"p","e","l","a">>,
    <<"p","e","l","a","s">>, <<"p","e","l","o">>, <<"p","e","l","o","s">>,
    <<"p","e","r","o">>, <<"p","i","o","r">>, <<"p","l","u","s">>,
    <<"p","o","i","s">>, <<"p","o","r">>, <<"p","o","r","q","u","e">>,
    <<"p","o","r","t","a","n","t","o">>, <<"p","o","u","c","o">>,
    <<"p","o","u","r">>, <<"p","o","u","r","q","u","o","i">>,
    <<"p","u","e","d","e">>, <<"q","u","a","i","s">>,
    <<"q","u","a","i","s","q","u","e","r">>, <<"q","u","a","l">>,
    <<"q","u","a","l","q","u","e","r">>, <<"q","u","a","n","d">>,
    <<"q","u","a","n","d","o">>, <<"q","u","a","n","t","a">>,
    <<"q","u","a","n","t","a","s">>, <<"q","u","a","n","t","o">>,
    <<"q","u","a","n","t","o","s">>, <<"q","u","e">>, <<"q","u","e","l">>,
    <<"q","u","e","l","l","e">>, <<"q","u","e","l","l","e","s">>,
    <<"q","u","e","l","q","u","e","f","o","i","s">>,
    <<"q","u","e","l","s">>, <<"q","u","e","m">>, <<"q","u","i">>,
    <<"q","u","i","e","n">>, <<"q","u","o","i">>, <<"r","i","g","h","t">>,
    <<"s","a">>, <<"s","a","l","v","o">>, <<"s","a","m","e">>, <<"s","e">>,
    <<"s","e","m">>, <<"s","e","r">>, <<"s","e","s">>, <<"s","e","u">>,
    <<"s","e","u","s">>, <<"s","h","a","l","l">>, <<"s","h","e">>,
    <<"s","h","o","r","t">>, <<"s","h","o","u","l","d">>, <<"s","i">>,
    <<"s","i","n">>, <<"s","i","n","o">>, <<"s","m","a","l","l">>,
    <<"s","o">>, <<"s","o","b","r","e">>, <<"s","o","m","e">>,
    <<"s","o","n">>, <<"s","o","u","v","e","n","t">>,
    <<"s","t","i","l","l">>, <<"s","u">>, <<"s","u","a">>,
    <<"s","u","a","s">>, <<"s","u","r">>, <<"t","a","l">>,
    <<"t","a","m","p","o","c","o">>, <<"t","a","n","t","a">>,
    <<"t","a","n","t","a","s">>, <<"t","a","n","t","o">>,
    <<"t","a","n","t","o","s">>, <<"t","e">>, <<"t","e","m">>,
    <<"t","e","r">>, <<"t","e","s">>, <<"t","e","u">>, <<"t","e","u","s">>,
    <<"t","h","a","n">>, <<"t","h","a","t">>, <<"t","h","e">>,
    <<"t","h","e","i","r">>, <<"t","h","e","i","r","s">>,
    <<"t","h","e","m">>, <<"t","h","e","n">>, <<"t","h","e","r","e">>,
    <<"t","h","e","s","e">>, <<"t","h","e","y">>, <<"t","h","i","s">>,
    <<"t","h","o","s","e">>, <<"t","i","e","n","e">>, <<"t","o">>,
    <<"t","o","d","a">>, <<"t","o","d","a","s">>,
    <<"t","o","d","a","v","i","a">>, <<"t","o","d","o">>,
    <<"t","o","d","o","s">>, <<"t","o","n">>, <<"t","o","o">>,
    <<"t","o","u","j","o","u","r","s">>, <<"t","o","u","t">>,
    <<"t","r","a","s">>, <<"t","u">>, <<"t","u","a">>, <<"t","u","a","s">>,
    <<"u">>, <<"u","m">>, <<"u","m","a">>, <<"u","n">>, <<"u","n","a">>,
    <<"u","n","d","e","r">>, <<"u","n","e">>, <<"u","p">>, <<"u","s">>,
    <<"v","e","r","y">>, <<"v","o","s">>,
    <<"v","o","s","o","t","r","o","s">>, <<"v","o","s","s","a">>,
    <<"v","o","s","s","a","s">>, <<"v","o","s","s","o">>,
    <<"v","o","s","s","o","s">>, <<"v","o","t","r","e">>,
    <<"v","o","u","s">>, <<"v","u","e","s","t","r","o">>, <<"w","a","s">>,
    <<"w","a","y">>, <<"w","e">>, <<"w","e","l","l">>, <<"w","e","r","e">>,
    <<"w","h","a","t">>, <<"w","h","e","n">>, <<"w","h","e","r","e">>,
    <<"w","h","i","c","h">>, <<"w","h","o">>, <<"w","h","o","m">>,
    <<"w","h","o","s","e">>, <<"w","h","y">>, <<"w","i","l","l">>,
    <<"w","i","t","h">>, <<"w","o","u","l","d">>, <<"y">>, <<"y","a">>,
    <<"y","o">>, <<"y","o","u">>, <<"y","o","u","r">>,
    <<"y","o","u","r","s">>
  }

\* s without the spans [k, k + lens[k]) of the leftmost non-overlapping
\* matches, lens[k] being the length of the match that starts at k (0: none)
RECURSIVE RemoveSpans(_, _, _)
RemoveSpans(s, lens, k) ==
  IF k >= Len(s) THEN <<>>
  ELSE IF lens[k] > 0 THEN RemoveSpans(s, lens, k + lens[k])
  ELSE <<s[k + 1]>> \o RemoveSpans(s, lens, k + 1)

\* re.sub(pattern, '', s) for a pattern that matches no empty string,
\* lens[k] being the length of its match at k
Sub(s, lens) == RemoveSpans(s, lens, 0)

\* the 0-based positions of s
Positions(s) == 0..(Len(s) - 1)

\* (?i)\[[a-z_]+\] at k
BracketedLen(s, k) ==
  LET run == RunLength(PySuffix(s, k + 1), Letters \cup {"_"})
  IN  IF s[k + 1] = "[" /\ run >= 1 /\ k + 1 + run < Len(s)
         /\ s[k + run + 2] = "]"
        THEN run + 2 ELSE 0

\* c{least,} at k
RunLen(s, k, c, least) ==
  LET run == RunLength(PySuffix(s, k), {c})
  IN  IF run >= least THEN run ELSE 0

\* \bx{2,}\b with re.IGNORECASE at k
StandaloneXLen(s, k) ==
  LET run == RunLength(PySuffix(s, k), {"x", "X"})
  IN  IF run >= 2 /\ WordBoundary(s, k) /\ WordBoundary(s, k + run)
        THEN run ELSE 0

\* \b\[?word\]?\b at k: both brackets are optional and taken when the
\* rest still matches
MarkerLen(s, k, word) ==
  LET Matches(open, close) ==
        /\ WordBoundary(s, k)
        /\ (open = 1 => s[k + 1] = "[")
        /\ MatchesAt(s, word, k + open)
        /\ (close = 1 => (/\ k + open + Len(word) < Len(s)
                          /\ s[k + open + Len(word) + 1] = "]"))
        /\ WordBoundary(s, k + open + Len(word) + close)
  IN  IF Matches(1, 1) THEN Len(word) + 2
      ELSE IF Matches(1, 0) THEN Len(word) + 1
      ELSE IF Matches(0, 1) THEN Len(word) + 1
      ELSE IF Matches(0, 0) THEN Len(word)
      ELSE 0

\* the redaction marker words, in the order they are removed
RedactionMarkers ==
  << <<"r","e","d","a","c","t","e","d">>, <<"r","e","m","o","v","e","d">>,
     <<"a","n","o","n","y","m","i","z","e","d">>,
     <<"m","a","s","k","e","d">>, <<"h","i","d","d","e","n">> >>

\* the marker words removed one after the other
RECURSIVE WithoutMarkers(_, _)
WithoutMarkers(s, markers) ==
  IF markers = <<>> THEN s
  ELSE WithoutMarkers(
         Sub(s, [k \in Positions(s) |-> MarkerLen(s, k, Head(markers))]),
         Tail(markers))

\* c{least,} removed
WithoutRuns(s, c, least) ==
  Sub(s, [k \in Positions(s) |-> RunLen(s, k, c, least)])

\* the text after the placeholder and noise removals
Denoised(text) ==
  LET t0 == Lower(text)
      t1 == Sub(t0, [k \in Positions(t0) |-> BracketedLen(t0, k)])
      t2 == WithoutRuns(t1, "*", 1)
      t3 == Sub(t2, [k \in Positions(t2) |-> StandaloneXLen(t2, k)])
      t4 == WithoutRuns(t3, "_", 2)
      t5 == WithoutRuns(t4, "#", 2)
      t6 == WithoutRuns(t5, "-", 2)
      t7 == WithoutRuns(t6, ".", 2)
  IN  WithoutMarkers(t7, RedactionMarkers)

\* re.findall(r'\b[a-zA-Z...]+\b', s) from k on: a run of letters matches
\* when a word boundary follows it
RECURSIVE FindWords(_, _)
FindWords(s, k) ==
  IF k >= Len(s) THEN <<>>
  ELSE LET run == RunLength(PySuffix(s, k), Letters)
       IN  IF run >= 1 /\ WordBoundary(s, k) /\ WordBoundary(s, k + run)
             THEN <<PySlice(s, k, k + run)>> \o FindWords(s, k + run)
             ELSE FindWords(s, k + 1)

\* a check that lets every word through
NeverStopWord(word) == FALSE

\* word.lower() in stop_words
IsStopWord(word) == Lower(word) \in stop_words

\* a word the loop skips: short, a stop word, or only x (the letters that
\* ^[x*_#-]+$ can match in a word of letters)
Skipped(word) ==
  \/ Len(word) <= 2
  \/ IsStopWord(word)
  \/ \A k \in DOMAIN word : word[k] \in {"x", "X"}

\* the loop over the words
RECURSIVE MeaningfulOf(_)
MeaningfulOf(words) ==
  IF words = <<>> THEN <<>>
  ELSE IF Skipped(Head(words)) THEN MeaningfulOf(Tail(words))
  ELSE <<Lower(Head(words))>> \o MeaningfulOf(Tail(words))

extract_meaningful_words(text) == MeaningfulOf(FindWords(Denoised(text), 0))

(***************************************************************************)
(* extract_meaningful_words called on its own                              *)
(***************************************************************************)
\* most pieces a text is put together from
MaxPieces == 3

\* the pieces: words in both cases, a stop word, separators, a placeholder,
\* noise and a redaction marker
WordPieces ==
  { <<"T","h","e">>, <<"c","a","t">>, <<"o","n">>, <<" ">>, <<".">>, <<"[","D","A","T","E","]">>, <<"*">>, <<"x","x">>, <<"_">>, <<"h","i","d","d","e","n">> }

\* "The cat sat on THE mat."
ExampleText ==
  <<"T","h","e"," ","c","a","t"," ","s","a","t"," ","o","n"," ","T","H","E"," ","m","a","t",".">>

\* the texts of up to n pieces
RECURSIVE PiecedTexts(_)
PiecedTexts(n) ==
  IF n = 0 THEN { <<>> }
  ELSE PiecedTexts(n - 1) \cup
       { t \o p : t \in PiecedTexts(n - 1), p \in WordPieces }

InitWords ==
  /\ InitState
  /\ nlp_service = NewService("pipeline", TRUE)
  /\ call \in { [op |-> "extract_meaningful_words", done |-> FALSE,
                 text |-> t, result |-> <<>>] :
                  t \in PiecedTexts(MaxPieces) \cup {ExampleText} }

words_call ==
  /\ call.op = "extract_meaningful_words"
  /\ ~call.done
  /\ call' = [call EXCEPT !.done = TRUE,
                          !.result = extract_meaningful_words(call.text)]
  /\ UNCHANGED <<original_transcript, current_transcript, heap, paragraphs,
                 entities, nlp_service, search_results, coding_schemes,
                 batches, progress_dialog, open_dialogs, last_op>>

NextWords == words_call

SpecWords == InitWords /\ [][NextWords]_vars

(***************************************************************************)
(* NLPService used from several threads                                    *)
(*                                                                         *)
(* __init__, _initialize_stanza and extract_entities statement by          *)
(* statement: a thread may be suspended between any two of its reads and   *)
(* writes of the class attributes and of the attributes of an instance.    *)
(* call holds the two class attributes, the instances and, for each        *)
(* thread, its position, the instance it works on, the pipeline it built   *)
(* and the record of its last extract_entities call.                       *)
(***************************************************************************)
\* threads that call into the service
MaxThreads == 2

\* NLPService instances
MaxServices == 2

\* an instance that was not constructed yet
NoInstance == [constructed |-> FALSE, nlp_pipeline |-> "None",
               stanza_initialized |-> FALSE]

\* a thread outside the service
IdleThread == [pc |-> "idle", self |-> 0, op |-> "none", built |-> "None",
               after_init |-> FALSE, path |-> "none"]

InitThreads ==
  /\ InitState
  /\ nlp_service = NewService("None", FALSE)
  /\ call = [op |-> "threads", done |-> FALSE,
             shared_pipeline |-> "None", shared_initialized |-> FALSE,
             services |-> [x \in 1..MaxServices |-> NoInstance],
             threads |-> [t \in 1..MaxThreads |-> IdleThread]]

\* the positions between `NLPService._shared_initialized = True` and the
\* last assignment of _initialize_stanza
InitPositions == {"set_shared", "set_self", "load", "assign"}

\* a pipeline is shared and no thread is initializing one
InitializationComplete ==
  /\ call.shared_pipeline = "pipeline"
  /\ \A t \in 1..MaxThreads : call.threads[t].pc \notin InitPositions

OnlyCallChanges ==
  UNCHANGED <<original_transcript, current_transcript, heap, paragraphs,
              entities, nlp_service, search_results, coding_schemes,
              batches, progress_dialog, open_dialogs, last_op>>

\* NLPService(): the instance copies the class attributes as they are now
construct_service(x) ==
  /\ call.op = "threads"
  /\ ~call.services[x].constructed
  /\ call' = [call EXCEPT !.services[x] =
                [constructed |-> TRUE,
                 nlp_pipeline |-> call.shared_pipeline,
                 stanza_initialized |-> call.shared_initialized]]
  /\ OnlyCallChanges

\* extract_entities(text) is called on instance x:
\* `if not self._stanza_initialized: self._initialize_stanza()`
begin_extract_entities(t, x) ==
  /\ call.op = "threads"
  /\ call.threads[t].pc = "idle"
  /\ call.services[x].constructed
  /\ call' = [call EXCEPT !.threads[t] =
                [pc |-> IF call.services[x].stanza_initialized
                          THEN "use" ELSE "guard",
                 self |-> x, op |-> "extract_entities", built |-> "None",
                 after_init |-> InitializationComplete, path |-> "none"]]
  /\ OnlyCallChanges

\* _initialize_stanza() is called on instance x, as at startup
begin_initialize_stanza(t, x) ==
  /\ call.op = "threads"
  /\ call.threads[t].pc = "idle"
  /\ call.services[x].constructed
  /\ call' = [call EXCEPT !.threads[t] =
                [pc |-> "guard", self |-> x, op |-> "_initialize_stanza",
                 built |-> "None", after_init |-> FALSE, path |-> "none"]]
  /\ OnlyCallChanges

\* where a thread goes when _initialize_stanza returns
AfterInitialize(th) == IF th.op = "extract_entities" THEN "use" ELSE "idle"

\* `if self._stanza_initialized or NLPService._shared_initialized:`
stanza_guard(t) ==
  LET th == call.threads[t]
  IN  /\ call.op = "threads"
      /\ th.pc = "guard"
      /\ call' = [call EXCEPT !.threads[t].pc =
                    IF \/ call.services[th.self].stanza_initialized
                       \/ call.shared_initialized
                      THEN "adopt" ELSE "set_shared"]
      /\ OnlyCallChanges

\* `if NLPService._shared_pipeline:` the instance takes it; `return`
stanza_adopt(t) ==
  LET th == call.threads[t]
  IN  /\ call.op = "threads"
      /\ th.pc = "adopt"
      /\ call' = [call EXCEPT
                    !.services[th.self] =
                      IF call.shared_pipeline # "None"
                        THEN [@ EXCEPT !.nlp_pipeline = call.shared_pipeline,
                                       !.stanza_initialized = TRUE]
                        ELSE @,
                    !.threads[t].pc = AfterInitialize(th)]
      /\ OnlyCallChanges

\* `NLPService._shared_initialized = True`
stanza_set_shared(t) ==
  /\ call.op = "threads"
  /\ call.threads[t].pc = "set_shared"
  /\ call' = [call EXCEPT !.shared_initialized = TRUE,
                          !.threads[t].pc = "set_self"]
  /\ OnlyCallChanges

\* `self._stanza_initialized = True`
stanza_set_self(t) ==
  LET th == call.threads[t]
  IN  /\ call.op = "threads"
      /\ th.pc = "set_self"
      /\ call' = [call EXCEPT !.services[th.self].stanza_initialized = TRUE,
                              !.threads[t].pc = "load"]
      /\ OnlyCallChanges

\* stanza.Pipeline(...) returns in one of the two try blocks, or both
\* raise; `NLPService._shared_pipeline = pipeline` or `= None`
stanza_load(t, load_ok) ==
  LET built == IF load_ok THEN "pipeline" ELSE "None"
  IN  /\ call.op = "threads"
      /\ call.threads[t].pc = "load"
      /\ call' = [call EXCEPT !.shared_pipeline = built,
                              !.threads[t].built = built,
                              !.threads[t].pc = "assign"]
      /\ OnlyCallChanges

\* `self.nlp_pipeline = pipeline` or `= None`
stanza_assign(t) ==
  LET th == call.threads[t]
  IN  /\ call.op = "threads"
      /\ th.pc = "assign"
      /\ call' = [call EXCEPT !.services[th.self].nlp_pipeline = th.built,
                              !.threads[t].pc = AfterInitialize(th)]
      /\ OnlyCallChanges

\* `if self.nlp_pipeline:` the call runs the pipeline, or the regex
\* fallback, and returns
choose_path(t) ==
  LET th == call.threads[t]
  IN  /\ call.op = "threads"
      /\ th.pc = "use"
      /\ call' = [call EXCEPT
                    !.threads[t].path =
                      IF call.services[th.self].nlp_pipeline # "None"
                        THEN "pipeline" ELSE "regex",
                    !.threads[t].pc = "idle"]
      /\ OnlyCallChanges

NextThreads ==
  \/ \E x \in 1..MaxServices : construct_service(x)
  \/ \E t \in 1..MaxThreads, x \in 1..MaxServices : begin_extract_entities(t, x)
  \/ \E t \in 1..MaxThreads, x \in 1..MaxServices : begin_initialize_stanza(t, x)
  \/ \E t \in 1..MaxThreads : stanza_guard(t)
  \/ \E t \in 1..MaxThreads : stanza_adopt(t)
  \/ \E t \in 1..MaxThreads : stanza_set_shared(t)
  \/ \E t \in 1..MaxThreads : stanza_set_self(t)
  \/ \E t \in 1..MaxThreads, load_ok \in BOOLEAN : stanza_load(t, load_ok)
  \/ \E t \in 1..MaxThreads : stanza_assign(t)
  \/ \E t \in 1..MaxThreads : choose_path(t)

SpecThreads == InitThreads /\ [][NextThreads]_vars

(***************************************************************************)
(* Properties of anonymize_text                                            *)
(***************************************************************************)
\* the entities of the list that are marked for anonymization
MarkedOf(es) == { es[k] : k \in { j \in DOMAIN es : es[j].anonymized } }

\* the marked spans lie inside the text and no two of them share a character
MarkedSpansDisjoint(text, es) ==
  /\ \A k \in DOMAIN es :
       es[k].anonymized =>
         0 <= es[k].start_pos /\ es[k].start_pos < es[k].end_pos
           /\ es[k].end_pos <= Len(text)
  /\ \A j, k \in DOMAIN es :
       (j # k /\ es[j].anonymized /\ es[k].anonymized) =>
         es[j].end_pos <= es[k].start_pos \/ es[k].end_pos <= es[j].start_pos

\* the text read from offset p on, each marked span replaced by its
\* replacement and every other character copied
RECURSIVE Rewritten(_, _, _)
Rewritten(text, marked, p) ==
  IF p >= Len(text) THEN <<>>
  ELSE IF \E e \in marked : e.start_pos = p
    THEN LET e == CHOOSE x \in marked : x.start_pos = p
         IN  ReplacementOf(e) \o Rewritten(text, marked, e.end_pos)
    ELSE <<text[p + 1]>> \o Rewritten(text, marked, p + 1)

\* the list in the opposite order
Reversed(es) == [k \in DOMAIN es |-> es[Len(es) + 1 - k]]

Resegmented ==
  last_op \in {"load_transcript", "save_transcript_changes",
               "reload_transcript"}

\* C2: every entity that carries a paragraph_id refers to an existing
\* paragraph, its offsets lie inside that paragraph's text and the text at
\* its offsets is the entity's text
OffsetValidity ==
  \A k \in DOMAIN entities :
    entities[k].paragraph_id # NoParagraph =>
      /\ entities[k].paragraph_id \in 0..(Len(paragraphs) - 1)
      /\ 0 <= entities[k].start_pos
      /\ entities[k].start_pos <= entities[k].end_pos
      /\ entities[k].end_pos <= Len(ParagraphAt(entities[k].paragraph_id).text)
      /\ PySlice(ParagraphAt(entities[k].paragraph_id).text,
                 entities[k].start_pos, entities[k].end_pos)
           = entities[k].text

\* C3: after load_transcript, save_transcript_changes or reload_transcript
\* every paragraph has speaker 'unknown', sentiment 'neutral' and no codes,
\* and app_state.entities holds no entity associated with a paragraph id
ResegmentationWipesAnnotations ==
  Resegmented =>
    /\ \A i \in 0..(Len(paragraphs) - 1) :
         /\ ParagraphAt(i).speaker = "unknown"
         /\ ParagraphAt(i).sentiment = "neutral"
         /\ ParagraphAt(i).codes = <<>>
         /\ ParagraphAt(i).entities = <<>>
    /\ \A k \in DOMAIN entities : entities[k].paragraph_id = NoParagraph

\* C4: the paragraph at list index i has id i
ParagraphIdsDense ==
  \A i \in 0..(Len(paragraphs) - 1) : ParagraphAt(i).id = i

\* therapist paragraphs were dropped from the middle of the transcript: the
\* paragraph "b" moved from list index 2 to list index 1
DropRenumbersWitness ==
  /\ last_op = "drop_therapist_paragraphs"
  /\ Len(paragraphs) = 2
  /\ ParagraphAt(1).text = <<"b">>
  /\ ParagraphAt(1).id = 1

(***************************************************************************)
(* Properties of the manual-entity dialog                                  *)
(***************************************************************************)
\* the offsets at which T occurs in ptext, ignoring case
OccurrencesOf(ptext, T) ==
  { p \in 0..(Len(ptext) - Len(T)) :
      Lower([k \in 1..Len(T) |-> ptext[p + k]]) = Lower(T) }

\* what identifies an entity: where it is, its text and its type
SpanOf(e) ==
  [paragraph_id |-> e.paragraph_id, start_pos |-> e.start_pos,
   end_pos |-> e.end_pos, text |-> e.text, entity_type |-> e.entity_type]

\* the entities a bulk insert of T with type K is to create
ExpectedBulk(T, K) ==
  UNION { { [paragraph_id |-> i, start_pos |-> p, end_pos |-> p + Len(T),
             text |-> [k \in 1..Len(T) |-> ParagraphAt(i).text[p + k]],
             entity_type |-> K] :
              p \in { q \in OccurrencesOf(ParagraphAt(i).text, T) :
                        ~ExistsAtPosition(entities, i, q) } } :
          i \in 0..(Len(paragraphs) - 1) }

\* the step kept the entities it found and appended others
AppendsOnly ==
  /\ Len(entities') >= Len(entities)
  /\ SubSeq(entities', 1, Len(entities)) = entities

\* the entities the step appended that carry a paragraph_id
AppendedOwned ==
  SelectSeq(SubSeq(entities', Len(entities) + 1, Len(entities')),
            LAMBDA e : e.paragraph_id # NoParagraph)

\* the step appended one entity per expected span, paragraph by paragraph
\* and from left to right
BulkInsertPost(T, K) ==
  /\ AppendsOnly
  /\ { SpanOf(AppendedOwned[k]) : k \in DOMAIN AppendedOwned }
       = ExpectedBulk(T, K)
  /\ Len(AppendedOwned) = Cardinality(ExpectedBulk(T, K))
  /\ \A j, k \in DOMAIN AppendedOwned :
       j < k =>
         \/ AppendedOwned[j].paragraph_id < AppendedOwned[k].paragraph_id
         \/ /\ AppendedOwned[j].paragraph_id = AppendedOwned[k].paragraph_id
            /\ AppendedOwned[j].start_pos < AppendedOwned[k].start_pos

\* C5: a bulk insert of a non-empty literal T with type K, when no entity
\* has the text T, creates in each paragraph, from left to right, exactly one
\* entity for every offset at which T occurs ignoring case, overlapping
\* occurrences included, with the paragraph's own characters as its text,
\* except at the offsets where an entity of that paragraph already starts
BulkInsertCoversOccurrences ==
  [][\A t \in ManualTexts, ty \in ManualTypes, r \in ManualReplacements :
       (/\ add_entity_without_search(t, ty, r)
        /\ Strip(t) # <<>>
        /\ ~ExistsWithText(entities, Strip(t)))
         => BulkInsertPost(Strip(t), ty)]_vars

\* a bulk insert has created entities at two overlapping occurrences of its
\* literal in one paragraph
BulkOverlapWitness ==
  /\ last_op = "add_entity_without_search"
  /\ \E j, k \in DOMAIN entities :
       /\ entities[j].paragraph_id # NoParagraph
       /\ entities[j].paragraph_id = entities[k].paragraph_id
       /\ entities[j].text = entities[k].text
       /\ entities[k].start_pos = entities[j].start_pos + 1
       /\ entities[j].end_pos > entities[k].start_pos

\* C6: on the bulk insert and on the single-match insert alike, when an
\* entity whose text equals the requested text ignoring case exists, the
\* entity list is left unchanged
TextFilterOnEveryInsert ==
  [][\A ty \in ManualTypes, r \in ManualReplacements :
       /\ \A t \in ManualTexts :
            (add_entity_without_search(t, ty, r)
               /\ ExistsWithText(entities, Strip(t)))
              => entities' = entities
       /\ \A m \in search_results.matches :
            (create_entity_from_match(ty, r, m)
               /\ ExistsWithText(entities, search_results.term))
              => entities' = entities]_vars

\* what "Select This Match" on paragraph m for the literal T is to do
MatchInsertPost(T, K, m) ==
  IF ExistsInParagraph(entities, m) THEN entities' = entities
  ELSE IF m < Len(paragraphs) /\ OccurrencesOf(ParagraphAt(m).text, T) # {}
    THEN LET first == CHOOSE p \in OccurrencesOf(ParagraphAt(m).text, T) :
                        \A q \in OccurrencesOf(ParagraphAt(m).text, T) : p <= q
             e == entities'[Len(entities')]
         IN  /\ AppendsOnly
             /\ Len(entities') = Len(entities) + 1
             /\ e.paragraph_id = m
             /\ e.start_pos = first
             /\ e.end_pos = first + Len(T)
             /\ e.anonymized = FALSE
    ELSE entities' = entities

\* C7: selecting a search match leaves the entity list unchanged when an
\* entity is already associated with the chosen paragraph; otherwise it
\* appends exactly one entity for that paragraph, not marked, at the first
\* occurrence of the literal (ignoring case) in the paragraph's current text,
\* and appends nothing when the literal no longer occurs there
MatchInsertRules ==
  [][\A ty \in ManualTypes, r \in ManualReplacements :
       \A m \in search_results.matches :
         create_entity_from_match(ty, r, m)
           => MatchInsertPost(search_results.term, ty, m)]_vars

\* a selected match has added its entity: the dialog was closed by
\* _create_entity_from_match
MatchInsertedWitness ==
  /\ last_op = "create_entity_from_match"
  /\ search_results = NoSearch
  /\ entities # <<>>
  /\ entities[Len(entities)].paragraph_id \in 0..(Len(paragraphs) - 1)

\* the literal occurs in no paragraph
OccursNowhere(T) ==
  \A i \in 0..(Len(paragraphs) - 1) : OccurrencesOf(ParagraphAt(i).text, T) = {}

\* C8: a bulk insert whose literal occurs in no paragraph, when no entity has
\* that text, adds exactly one entity, with the trimmed literal as its text,
\* the chosen type and no paragraph_id, and adds or removes no other entity
AbsentLiteralRecorded ==
  [][\A t \in ManualTexts, ty \in ManualTypes, r \in ManualReplacements :
       (/\ add_entity_without_search(t, ty, r)
        /\ Strip(t) # <<>>
        /\ ~ExistsWithText(entities, Strip(t))
        /\ OccursNowhere(Strip(t)))
         => /\ AppendsOnly
            /\ Len(entities') = Len(entities) + 1
            /\ entities'[Len(entities')].text = Strip(t)
            /\ entities'[Len(entities')].entity_type = ty
            /\ entities'[Len(entities')].paragraph_id = NoParagraph]_vars

\* a bulk insert on a loaded transcript has recorded a literal that occurs
\* in none of its paragraphs
AbsentLiteralWitness ==
  /\ last_op = "add_entity_without_search"
  /\ paragraphs # <<>>
  /\ entities # <<>>
  /\ entities[Len(entities)].paragraph_id = NoParagraph
  /\ OccursNowhere(entities[Len(entities)].text)

(***************************************************************************)
(* Properties of entity detection                                          *)
(***************************************************************************)
\* C9: extract_entities never raises to its caller, and when the pipeline is
\* unavailable or raises during inference, also after it has yielded
\* entities, the list returned is the result of _extract_entities_regex on
\* the same text
ExtractFallsBackToRegex ==
  (call.op = "extract_entities" /\ call.done) =>
    /\ ~call.result.raised
    /\ (nlp_service.nlp_pipeline = "None" \/ call.outcome.fail_at # -1) =>
         call.result.entities = extract_entities_regex(call.text)

\* a call has returned in which the pipeline raised after yielding an entity
\* that the regex fallback does not produce
ExtractAfterPartialWitness ==
  /\ call.op = "extract_entities" /\ call.done
  /\ nlp_service.nlp_pipeline = "pipeline"
  /\ call.outcome.fail_at = 1
  /\ call.outcome.ents # <<>>
  /\ StanzaEntities(call.outcome.ents, 1) # extract_entities_regex(call.text)
  /\ call.result.entities # <<>>

\* C10: when an exception is raised on paragraph k of a detection batch,
\* every paragraph after k is still processed and its entities are added
BatchSurvivesFailure ==
  \A b \in DOMAIN batches :
    (batches[b].pc = "done" /\ batches[b].failed # -1) =>
      \A j \in (batches[b].failed + 1)..(batches[b].n - 1) :
        j \in batches[b].processed

\* the entities of the list that are associated with paragraph id j
OwnedBy(es, j) == SelectSeq(es, LAMBDA e : e.paragraph_id = j)

\* C11: during and after a detection batch, the entities of each paragraph
\* are the batch's detection result for it or, when the paragraph has not
\* been processed or its detection failed, the entities it had before the
\* batch cleared the list
DetectionAtomicPerParagraph ==
  \A b \in DOMAIN batches :
    batches[b].pc \in {"thread", "yield", "done"} =>
      \A j \in 0..(batches[b].n - 1) :
        OwnedBy(entities, j) =
          IF j \in batches[b].processed
            THEN batches[b].results[j + 1]
            ELSE OwnedBy(batches[b].before, j)

(***************************************************************************)
(* Properties of apply-anonymization                                       *)
(***************************************************************************)
\* the text of the paragraph at list index i after the step
TextAfter(i) == heap'[paragraphs[i + 1]].text

\* some entity is marked for anonymization
SomeMarked == \E k \in DOMAIN entities : entities[k].anonymized

\* the offsets of e do not lie inside the text
OutOfBounds(e, text) ==
  \/ e.start_pos > Len(text)
  \/ e.end_pos > Len(text)
  \/ e.start_pos > e.end_pos

\* the paragraph at list index i has a marked entity with offsets outside
\* its current text
HasOutOfBoundsMarked(i) ==
  \E k \in DOMAIN entities :
    /\ entities[k].anonymized
    /\ entities[k].paragraph_id = ParagraphAt(i).id
    /\ OutOfBounds(entities[k], ParagraphAt(i).text)

\* C12: when anonymization is applied, a paragraph with a marked entity
\* whose offsets fall outside its current text fails loudly; its text is not
\* rewritten from the clamped span
OutOfBoundsFailsLoudly ==
  [][\A fail_at \in -1..(Len(paragraphs) - 1) :
       apply_anonymization(fail_at) =>
         \A i \in 0..(Len(paragraphs) - 1) :
           HasOutOfBoundsMarked(i) => TextAfter(i) = ParagraphAt(i).text]_vars

\* the paragraph texts after the step, joined by a blank line
JoinedAfter ==
  Join([k \in 1..Len(paragraphs) |-> TextAfter(k - 1)], <<"\n", "\n">>)

\* C13: when anonymizing paragraph k fails, every other paragraph with
\* marked entities is still anonymized and current_transcript is the
\* paragraph texts joined by a blank line
AnonymizationFailureIsolated ==
  [][\A k \in 0..(Len(paragraphs) - 1) :
       apply_anonymization(k) =>
         /\ \A i \in 0..(Len(paragraphs) - 1) \ {k} :
              TextAfter(i) = AnonymizedParagraphText(ParagraphAt(i), entities)
         /\ current_transcript' = JoinedAfter]_vars

\* the marked entities of the list associated with paragraph id j
OwnMarked(j) ==
  SelectSeq(OwnedBy(entities, j), LAMBDA e : e.anonymized)

\* C14: a successful apply-anonymization with a marked entity empties
\* app_state.entities, gives each paragraph the text anonymize_text returns
\* for its previous text and its own marked entities, leaves the paragraphs
\* without marked entities as they were, and sets current_transcript to the
\* paragraph texts joined by "\n\n"
ApplyCommitsAndClears ==
  [][(apply_anonymization(-1) /\ SomeMarked) =>
       /\ entities' = <<>>
       /\ paragraphs' = paragraphs
       /\ \A i \in 0..(Len(paragraphs) - 1) :
            TextAfter(i) =
              IF OwnMarked(ParagraphAt(i).id) = <<>> THEN ParagraphAt(i).text
              ELSE anonymize_text(ParagraphAt(i).text,
                                  OwnMarked(ParagraphAt(i).id))
       /\ current_transcript' = JoinedAfter]_vars

\* anonymization was applied: one paragraph carries a placeholder, another
\* was left as it was, and the entity list is empty
ApplyCommittedWitness ==
  /\ last_op = "apply_anonymization"
  /\ entities = <<>>
  /\ Len(paragraphs) = 2
  /\ \E k \in DOMAIN ParagraphAt(1).text : ParagraphAt(1).text[k] = "["
  /\ ParagraphAt(0).text = <<"A","a">>
  /\ \E k \in DOMAIN current_transcript : current_transcript[k] = "["

\* C15: anonymize_text returns its input text when no entity of the list is
\* marked, however many entities it holds, and apply-anonymization then
\* leaves the paragraph texts, current_transcript and the entity list as
\* they were
NothingMarkedIsNoOp ==
  [][(apply_anonymization(-1) /\ ~SomeMarked) =>
       /\ \A i \in 0..(Len(paragraphs) - 1) :
            /\ anonymize_text(ParagraphAt(i).text, entities)
                 = ParagraphAt(i).text
            /\ TextAfter(i) = ParagraphAt(i).text
       /\ paragraphs' = paragraphs
       /\ current_transcript' = current_transcript
       /\ entities' = entities]_vars

\* apply-anonymization ran on a transcript with entities, none of them marked
NothingMarkedWitness ==
  /\ last_op = "apply_anonymization"
  /\ paragraphs # <<>>
  /\ Len(entities) >= 2
  /\ ~SomeMarked

(***************************************************************************)
(* Properties of the original transcript                                   *)
(***************************************************************************)
\* the texts of the paragraphs after the step, in list order
TextsAfter == [k \in 1..Len(paragraphs') |-> heap'[paragraphs'[k]].text]

\* C16: only load_transcript changes original_transcript, and
\* reload_transcript sets current_transcript to original_transcript and the
\* paragraphs to the segmentation of original_transcript
OriginalRetained ==
  [][/\ original_transcript' # original_transcript
          => last_op' = "load_transcript"
     /\ reload_transcript =>
          /\ current_transcript' = original_transcript
          /\ TextsAfter = SplitTexts(original_transcript)]_vars

\* the original was reloaded over a working transcript that anonymization
\* or the removal of paragraphs had rewritten
ReloadRestoresWitness ==
  /\ last_op = "reload_transcript"
  /\ current_transcript = TranscriptA
  /\ Len(paragraphs) = 2
  /\ entities # <<>>

(***************************************************************************)
(* Properties of the segmenter                                             *)
(***************************************************************************)
\* a set of positions in ascending order
RECURSIVE Ascending(_)
Ascending(S) ==
  IF S = {} THEN <<>>
  ELSE LET m == CHOOSE x \in S : \A y \in S : x <= y
       IN  <<m>> \o Ascending(S \ {m})

\* the text between the positions cut (1-based), cut at every maximal run
\* of them: each unit without its leading and trailing whitespace, the units
\* that are empty left out, in order
UnitsOf(s, cut) ==
  LET starts == { i \in DOMAIN s \ cut : i = 1 \/ (i - 1) \in cut }
      EndOf(i) == IF \E c \in cut : c > i
                    THEN (CHOOSE c \in cut :
                            c > i /\ \A d \in cut : d > i => c <= d) - 1
                    ELSE Len(s)
      Blank(i, j) == \A k \in i..j : s[k] \in Whitespace
      kept == Ascending({ i \in starts : ~Blank(i, EndOf(i)) })
  IN  [n \in DOMAIN kept |->
         LET to == EndOf(kept[n])
             first == CHOOSE k \in kept[n]..to :
                        s[k] \notin Whitespace /\ Blank(kept[n], k - 1)
             last  == CHOOSE k \in kept[n]..to :
                        s[k] \notin Whitespace /\ Blank(k + 1, to)
         IN  SubSeq(s, first, last)]

\* the line breaks that stand next to another line break
BlankLineCuts(s) ==
  { i \in DOMAIN s :
      /\ s[i] = "\n"
      /\ \/ i > 1 /\ s[i - 1] = "\n"
         \/ i < Len(s) /\ s[i + 1] = "\n" }

\* the line breaks
LineBreakCuts(s) == { i \in DOMAIN s : s[i] = "\n" }

\* the sentence-ending punctuation
PunctuationCuts(s) == { i \in DOMAIN s : s[i] \in {".", "!", "?"} }

\* the units of the first strategy that yields a unit
FirstYielding(s) ==
  IF UnitsOf(s, BlankLineCuts(s)) # <<>> THEN UnitsOf(s, BlankLineCuts(s))
  ELSE IF UnitsOf(s, LineBreakCuts(s)) # <<>> THEN UnitsOf(s, LineBreakCuts(s))
  ELSE UnitsOf(s, PunctuationCuts(s))

\* the units of the strategy whose separator is the first to occur in the
\* text, in the order blank line, line break, punctuation
SelectedBySeparator(s) ==
  IF BlankLineCuts(s) # {} THEN UnitsOf(s, BlankLineCuts(s))
  ELSE IF LineBreakCuts(s) # {} THEN UnitsOf(s, LineBreakCuts(s))
  ELSE UnitsOf(s, PunctuationCuts(s))

\* a call of _split_into_paragraphs has returned
Segmented == call.op = "split_into_paragraphs" /\ call.done

\* C17: the segmenter returns the units of the first of its three strategies
\* (blank lines, line breaks, sentence punctuation; each trimmed, empty
\* units discarded) that yields a unit, and uses a later strategy only when
\* every earlier one yields none
SegmenterFirstYieldingStrategy ==
  Segmented => call.primary = FirstYielding(call.content)

\* C17 as amended: the strategy is selected by the separators in the text:
\* blank lines when the text has one, else line breaks when it has one, else
\* sentence punctuation; the units of that strategy, trimmed and with the
\* empty ones discarded, are returned, and no other strategy is tried
SegmenterSelectsBySeparator ==
  Segmented => call.primary = SelectedBySeparator(call.content)

\* a text with a blank line was segmented: a unit keeps a single line break
SegmentedBlankLinesWitness ==
  /\ Segmented
  /\ BlankLineCuts(call.content) # {}
  /\ \E n \in DOMAIN call.primary :
       \E k \in DOMAIN call.primary[n] : call.primary[n][k] = "\n"

\* the periods followed by whitespace and an upper-case letter
PostPassCuts(s) ==
  { i \in DOMAIN s :
      /\ s[i] = "."
      /\ \E j \in (i + 2)..Len(s) :
           /\ s[j] \in UpperLetters
           /\ \A k \in (i + 1)..(j - 1) : s[k] \in Whitespace }

\* the units with the period the split took restored: every unit but the
\* last one lost its period
PeriodsRestored(units) ==
  [n \in DOMAIN units |->
     IF n < Len(units) THEN Append(units[n], ".") ELSE units[n]]

\* C18: the post-pass runs only on a single primary unit longer than 500
\* characters; when its split yields at least 2 units they replace the unit,
\* and a period is appended to exactly the units that lost theirs
PostPassRestoresLostPeriods ==
  Segmented =>
    call.result =
      IF /\ Len(call.primary) = 1
         /\ Len(call.primary[1]) > LongParagraphThreshold
         /\ Len(UnitsOf(call.primary[1], PostPassCuts(call.primary[1]))) >= 2
        THEN PeriodsRestored(
               UnitsOf(call.primary[1], PostPassCuts(call.primary[1])))
        ELSE call.primary

(***************************************************************************)
(* Properties of the entity vocabulary and of batch ownership              *)
(***************************************************************************)
\* the fixed vocabulary of entity types
Vocabulary ==
  { PERSON, ORGANIZATION, LOCATION, DATE, TIME, MONEY, PERCENT, PHONE,
    EMAIL, MISC }

\* C19: the type of every entity is one of the fixed vocabulary; a native
\* label of the recognizer that the mapping table does not list is
\* labelled MISC
EntityTypesInVocabulary ==
  \A k \in DOMAIN entities : entities[k].entity_type \in Vocabulary

\* the steps of the detection task
DetectOps ==
  { "detect_start", "detect_clear", "detect_resume", "detect_continue",
    "detect_raise" }

\* the task of batch b is inside its loop over the paragraphs
InFlight(b) == batches[b].pc \in {"thread", "yield"}

\* the sequences of a sequence, one after the other
RECURSIVE Concat(_)
Concat(seqs) == IF seqs = <<>> THEN <<>> ELSE Head(seqs) \o Concat(Tail(seqs))

\* C20: while a detection batch is in flight no other handler changes the
\* entity list or the paragraphs, and when the batch ends without an
\* exception the entity list holds each paragraph's detection result
\* exactly once
SingleOwnerDuringBatch ==
  [][\A b \in 1..MaxBatchStarts :
       /\ (InFlight(b) /\ last_op' \notin DetectOps) =>
            (entities' = entities /\ paragraphs' = paragraphs)
       /\ (InFlight(b) /\ batches'[b].pc = "done" /\ batches'[b].failed = -1) =>
            entities' = Concat(batches'[b].results)]_vars

(***************************************************************************)
(* Properties of extract_meaningful_words                                  *)
(***************************************************************************)
\* a call of extract_meaningful_words has returned
WordsExtracted == call.op = "extract_meaningful_words" /\ call.done

\* the characters of t occur in s, in this order
RECURSIVE ReadOff(_, _)
ReadOff(t, s) ==
  IF t = <<>> THEN TRUE
  ELSE IF s = <<>> THEN FALSE
  ELSE IF Head(t) = Head(s) THEN ReadOff(Tail(t), Tail(s))
  ELSE ReadOff(t, Tail(s))

\* the words of a text: its maximal runs of letters
WordsOf(s) == UnitsOf(s, { i \in DOMAIN s : s[i] \notin Letters })

\* a token the contract lets through: three or more lower-case letters that
\* are no stop word
Meaningful(token) ==
  /\ Len(token) >= 3
  /\ \A k \in DOMAIN token : token[k] \in LowerLetters
  /\ token \notin stop_words

\* a text of words, spaces and single periods with no noise in it: no word
\* of it is a redaction marker or made of the letter x only
PlainText(s) ==
  /\ \A i \in DOMAIN s : s[i] \in Letters \cup {" ", "."}
  /\ \A i \in DOMAIN s : s[i] = "." => (i = Len(s) \/ s[i + 1] # ".")
  /\ \A n \in DOMAIN WordsOf(s) :
       /\ \A m \in DOMAIN RedactionMarkers :
            Lower(WordsOf(s)[n]) # RedactionMarkers[m]
       /\ \E k \in DOMAIN WordsOf(s)[n] : WordsOf(s)[n][k] \notin {"x", "X"}

\* C21: extract_meaningful_words returns, in input order, only lower-case
\* tokens of three or more letters that are no stop word, whatever the
\* casing in the input: of a text of plain words it returns exactly the
\* words of that kind, lower-cased
MeaningfulWordsContract ==
  WordsExtracted =>
    /\ \A n \in DOMAIN call.result : Meaningful(call.result[n])
    /\ ReadOff(Concat(call.result), Lower(call.text))
    /\ PlainText(call.text) =>
         call.result =
           SelectSeq([n \in DOMAIN WordsOf(call.text) |->
                        Lower(WordsOf(call.text)[n])], Meaningful)

\* "The cat sat on THE mat." gave cat, sat, mat
ExampleWordsWitness ==
  /\ WordsExtracted
  /\ call.text = ExampleText
  /\ call.result = << <<"c","a","t">>, <<"s","a","t">>, <<"m","a","t">> >>

(***************************************************************************)
(* Properties of paragraph codes                                           *)
(***************************************************************************)
\* the code lists of the paragraphs, by list index
CodesOf(h, ps) == [i \in DOMAIN ps |-> h[ps[i]].codes]

\* everything but the code lists and the name of the last handler is as it
\* was
OnlyCodesChange ==
  /\ paragraphs' = paragraphs
  /\ DOMAIN heap' = DOMAIN heap
  /\ \A o \in DOMAIN heap : [heap'[o] EXCEPT !.codes = <<>>] =
                            [heap[o] EXCEPT !.codes = <<>>]
  /\ UNCHANGED <<original_transcript, current_transcript, entities,
                 coding_schemes>>

\* what a call of one of the two code methods must leave behind
CodeCallPost(paragraph_id, code, add) ==
  LET before == CodesOf(heap, paragraphs)
      after  == CodesOf(heap', paragraphs')
      i      == paragraph_id + 1
  IN  /\ OnlyCodesChange
      /\ \A j \in DOMAIN before : j # i => after[j] = before[j]
      /\ i \notin DOMAIN before => heap' = heap
      /\ i \in DOMAIN before =>
           after[i] =
             IF add
               THEN IF code \in Range(before[i]) THEN before[i]
                    ELSE Append(before[i], code)
               ELSE SelectSeq(before[i], LAMBDA c : c # code)

\* no code list holds a code twice
CodesDistinct ==
  \A o \in Range(paragraphs) :
    \A j, k \in DOMAIN heap[o].codes :
      heap[o].codes[j] = heap[o].codes[k] => j = k

\* C22: a paragraph's code list never holds a code twice and keeps insertion
\* order: adding a code that is present changes nothing, adding another
\* appends it, removing a code keeps the order of the others, and a call
\* with a paragraph id outside 0..n-1 leaves all state unchanged
CodeListsAreOrderedSets ==
  [][/\ CodesDistinct'
     /\ \A paragraph_id \in -1..Len(paragraphs), code \in SchemeIds,
           add \in BOOLEAN :
          paragraph_code_call(paragraph_id, code, add) =>
            CodeCallPost(paragraph_id, code, add)]_vars

\* a code was removed from between two others
CodeRemovedWitness ==
  /\ last_op = "remove_paragraph_code"
  /\ \E o \in Range(paragraphs) : heap[o].codes = <<"c1", "c3">>

(***************************************************************************)
(* Properties of an undisturbed detection batch                            *)
(***************************************************************************)
\* the lists extract_entities can return for a text
PossibleExtractions(text) ==
  { extract_entities(svc, text, ok, out).entities :
      svc \in StartupServices, ok \in BOOLEAN, out \in StanzaOutcomes(text) }

\* the entities as they were before the batch put the paragraph id on them
Untagged(es) == [k \in DOMAIN es |-> [es[k] EXCEPT !.paragraph_id = NoParagraph]]

\* the task of batch b returns in this step and no iteration raised
EndsClean(b) ==
  /\ InFlight(b)
  /\ batches'[b].pc = "done"
  /\ batches'[b].failed = -1

\* what a batch that was not disturbed leaves behind
BatchPost(b) ==
  LET results == batches'[b].results
  IN  /\ Len(results) = Len(paragraphs)
      /\ batches'[b].processed = 0..(Len(paragraphs) - 1)
      /\ \A k \in DOMAIN results :
           /\ \A j \in DOMAIN results[k] :
                results[k][j].paragraph_id = ParagraphAt(k - 1).id
           /\ ParagraphAt(k - 1).id = k - 1
           /\ Untagged(results[k]) \in
                PossibleExtractions(ParagraphAt(k - 1).text)
      /\ entities' = Concat(results)

\* the task of batch b is started and has not returned
Running(b) == batches[b].pc \in {"opened", "thread", "yield"}

\* C23: a detection batch that no handler disturbs and in which nothing
\* raises terminates; it has then processed every paragraph once, in id
\* order, and app_state.entities is the concatenation, in paragraph order,
\* of what extract_entities returned for each text, tagged with the
\* paragraph's id: the entities from before the batch are gone
UndisturbedBatchCompletes ==
  /\ [][\A b \in 1..MaxBatchStarts : EndsClean(b) => BatchPost(b)]_vars
  /\ \A b \in 1..MaxBatchStarts :
       Running(b) ~> (batches[b].pc = "done")

\* a batch that found entities in the list has ended, and found some
BatchReplacedEntitiesWitness ==
  \E b \in 1..MaxBatchStarts :
    /\ batches[b].pc = "done"
    /\ batches[b].failed = -1
    /\ batches[b].before # <<>>
    /\ last_op \in DetectOps
    /\ entities # <<>>
    /\ entities = Concat(batches[b].results)

(***************************************************************************)
(* Properties of anonymization over overlapping entities                   *)
(***************************************************************************)
\* the marked spans lie inside the text and two of them share a character
MarkedSpansOverlap(text, es) ==
  /\ \A k \in DOMAIN es :
       es[k].anonymized =>
         0 <= es[k].start_pos /\ es[k].start_pos < es[k].end_pos
           /\ es[k].end_pos <= Len(text)
  /\ \E j, k \in DOMAIN es :
       /\ j # k /\ es[j].anonymized /\ es[k].anonymized
       /\ es[j].start_pos < es[k].end_pos
       /\ es[k].start_pos < es[j].end_pos

\* the 0-based offsets of the text that lie in a marked span
Covered(es) ==
  { p \in Nat : \E k \in DOMAIN es :
      es[k].anonymized /\ es[k].start_pos <= p /\ p < es[k].end_pos }

\* the characters of the text outside every marked span, in order
Uncovered(text, es) ==
  LET keep == Ascending({ i \in DOMAIN text : (i - 1) \notin Covered(es) })
  IN  [n \in DOMAIN keep |-> text[keep[n]]]

\* C25: when marked entities of the list overlap or nest, anonymization
\* leaves no character of a marked span in the text and removes no
\* character that lies outside every marked span.  (The characters of the
\* text "abc" differ from each other and occur in no replacement, so a
\* character of the result is a character of the text exactly when it is
\* the same letter.)
OverlapsTolerated ==
  (call.op = "anonymize_text" /\ call.done
     /\ MarkedSpansOverlap(call.text, call.entities)) =>
    /\ \A i \in DOMAIN call.text :
         (i - 1) \in Covered(call.entities) =>
           call.text[i] \notin Range(call.result)
    /\ ReadOff(Uncovered(call.text, call.entities), call.result)

(***************************************************************************)
(* Properties of placeholders in the word statistics                       *)
(***************************************************************************)
\* every marked entity is replaced by the placeholder of a vocabulary type
DefaultPlaceholdersOnly ==
  \A k \in DOMAIN entities :
    entities[k].anonymized =>
      /\ entities[k].entity_type \in Vocabulary
      /\ ReplacementOf(entities[k]) = Placeholder(entities[k].entity_type)

\* the letters of the words of paragraph i
LettersOf(i) == Range(Lower(ParagraphAt(i).text)) \cap Letters

\* C24: the default placeholders "[T]" that anonymization writes into a
\* paragraph are stripped by extract_meaningful_words: every token of the
\* anonymized text is made of letters the paragraph had before, none comes
\* from a placeholder.  (No text of the model has all the letters of a
\* type name.)
PlaceholdersNeverCounted ==
  [][(apply_anonymization(-1) /\ SomeMarked /\ DefaultPlaceholdersOnly) =>
       \A i \in 0..(Len(paragraphs) - 1) :
         \A n \in DOMAIN extract_meaningful_words(TextAfter(i)) :
           Range(extract_meaningful_words(TextAfter(i))[n]) \subseteq LettersOf(i)
    ]_vars

(***************************************************************************)
(* Properties of entities when paragraphs are dropped                      *)
(***************************************************************************)
\* the Paragraph objects of the list that carry the id e refers to
OwnersOf(e) ==
  { o \in Range(paragraphs) :
      e.paragraph_id # NoParagraph /\ heap[o].id = e.paragraph_id }

\* every entity that refers to a paragraph refers to one paragraph of the
\* list, and its span lies in that paragraph's text
EveryEntityOwned ==
  \A k \in DOMAIN entities :
    entities[k].paragraph_id # NoParagraph =>
      /\ Cardinality(OwnersOf(entities[k])) = 1
      /\ \A o \in OwnersOf(entities[k]) :
           entities[k].end_pos <= Len(heap[o].text)

\* the entities after the drop: those of a removed paragraph are gone, those
\* of a surviving paragraph carry the id it has now
RECURSIVE FollowOwners(_)
FollowOwners(es) ==
  IF es = <<>> THEN <<>>
  ELSE LET e == Head(es)
           o == CHOOSE x \in OwnersOf(e) : TRUE
       IN  IF e.paragraph_id = NoParagraph
             THEN <<e>> \o FollowOwners(Tail(es))
           ELSE IF o \in Range(paragraphs')
             THEN <<[e EXCEPT !.paragraph_id = heap'[o].id]>>
                  \o FollowOwners(Tail(es))
           ELSE FollowOwners(Tail(es))

\* C26: dropping the therapist paragraphs preserves the association of
\* entities and paragraphs: an entity of a surviving paragraph is still
\* associated with that paragraph (it carries the paragraph's new id), and
\* no entity remains associated with a removed paragraph
DropKeepsEntityOwners ==
  [][(drop_therapist_paragraphs /\ EveryEntityOwned) =>
       entities' = FollowOwners(entities)]_vars

(***************************************************************************)
(* Properties of the ownerless entity of a bulk insert                     *)
(***************************************************************************)
\* the entities a step appended carry a paragraph
AppendedAreOwned ==
  \A k \in (Len(entities) + 1)..Len(entities') :
    entities'[k].paragraph_id # NoParagraph

\* C27: a bulk insert creates an entity without a paragraph only when the
\* literal occurs in no paragraph: when it occurs somewhere, also when every
\* occurrence is skipped because an entity exists at the same paragraph and
\* start_pos, no such entity is added
OwnerlessOnlyWhenAbsent ==
  [][\A t \in ManualTexts, ty \in ManualTypes, r \in ManualReplacements :
       (/\ add_entity_without_search(t, ty, r)
        /\ ~OccursNowhere(Strip(t)))
         => AppendedAreOwned]_vars

(***************************************************************************)
(* Properties of the progress dialogs                                      *)
(***************************************************************************)
\* C28: every progress dialog a detection batch opened is closed when the
\* batch ends, also when a second batch was started before the first one
\* finished: no dialog is open once all batches have ended
DialogsClosedAfterBatches == Quiet => open_dialogs = {}

(***************************************************************************)
(* Properties of the shared recognizer                                     *)
(***************************************************************************)
\* C29: once the shared pipeline is initialized, every instance, also one
\* constructed or called while the initialization was in progress, uses the
\* pipeline in the extract_entities calls made after the initialization
\* completed, and not the regex fallback
CallsAfterInitUsePipeline ==
  \A t \in 1..MaxThreads :
    (/\ call.threads[t].op = "extract_entities"
     /\ call.threads[t].after_init
     /\ call.threads[t].path # "none")
      => call.threads[t].path = "pipeline"

(***************************************************************************)
(* Properties of paragraph codes and the catalog of coding schemes         *)
(***************************************************************************)
\* C30: every code assigned to a paragraph refers to a coding scheme of the
\* catalog: after any sequence of adding and deleting schemes and toggling
\* paragraph codes, each element of every paragraph's code list is the id
\* of a scheme that is in app_state.coding_schemes
CodesReferToSchemes ==
  \A i \in 0..(Len(paragraphs) - 1) :
    Range(ParagraphAt(i).codes) \subseteq Range(coding_schemes)

=============================================================================
